---- MODULE Spec2Model ----
(***************************************************************************)
(* State-machine model of rag-js: the RAGEngine orchestrator               *)
(* (src/unnamed/part_001), its LocalEmbeddings vectorizer                  *)
(* (src/src/embeddings/local.js) and the CSVDataSource document source     *)
(* (src/src/datasources/csv.js).                                           *)
(*                                                                         *)
(* Numbers: JavaScript doubles are modelled in fixed point, one unit being *)
(* 1/1000 (a score of 0.3 is 300).  Texts are sequences of character codes.*)
(***************************************************************************)
EXTENDS Integers, Sequences, FiniteSets, TLC

(***************************************************************************)
(* Bounds of the model.                                                    *)
(***************************************************************************)
\* engine calls (initialize, addDocument, retrieve, query, refresh, close,
\* updateConfig) made in one behaviour
MaxCalls == 3
\* edits of the CSV file made by the environment in one behaviour
MaxEdits == 1
\* rows of the CSV file
MaxRows == 2
\* chunks the provider's stream yields at most
MaxChunks == 2
\* documents handed to findSimilar, and entries of a cache handed to
\* retrieveByVector, outside the engine
MaxDocs == 3
\* iterations of chunkText's loop followed in one call
MaxIterations == 8
\* length of the short texts handed to chunkText
MaxText == 7
\* config.dimension of the vectorizer
Dimension == 4

(***************************************************************************)
(* Program constants.                                                      *)
(***************************************************************************)
\* config.topK || 5
DefaultTopK == 5
\* config.similarityThreshold || 0.3
DefaultThreshold == 300
\* fixed-point unit: 1.0
One == 1000

(***************************************************************************)
(* Small helpers.                                                          *)
(***************************************************************************)
Range(s) == {s[i] : i \in DOMAIN s}

Min(a, b) == IF a < b THEN a ELSE b

\* x / y on doubles, in fixed point, rounded toward zero; y > 0
Quot(x, y) == IF x < 0 THEN -((-x) \div y) ELSE x \div y

RECURSIVE SqrtSearch(_, _, _)
SqrtSearch(x, lo, hi) ==
  IF lo >= hi THEN lo
  ELSE LET mid == (lo + hi + 1) \div 2
       IN  IF mid * mid <= x THEN SqrtSearch(x, mid, hi)
           ELSE SqrtSearch(x, lo, mid - 1)

\* Math.sqrt on a non-negative integer, rounded down
Sqrt(x) == SqrtSearch(x, 0, Min(x, 46340))

\* Math.log(n) for n = 1..16, in thousandths
LnTable == <<0, 693, 1099, 1386, 1609, 1792, 1946, 2079, 2197, 2303,
             2398, 2485, 2565, 2639, 2708, 2773>>

Ln(n) == LnTable[n]

(***************************************************************************)
(* LocalEmbeddings: tokenize, hashString, buildVocabulary, embed,          *)
(* normalize, cosineSimilarity, findSimilar.                               *)
(***************************************************************************)
\* String.prototype.toLowerCase on one ASCII code
toLowerCase(c) == IF c >= 65 /\ c <= 90 THEN c + 32 ELSE c

\* the class \w: [A-Za-z0-9_]
IsWordChar(c) ==
  \/ c >= 48 /\ c <= 57
  \/ c >= 65 /\ c <= 90
  \/ c = 95
  \/ c >= 97 /\ c <= 122

\* lower-case, turn every non-word character into a separator and split:
\* the maximal runs of word characters, in order
Words(text) ==
  LET lower   == [i \in DOMAIN text |-> toLowerCase(text[i])]
      starts  == {i \in DOMAIN text :
                    IsWordChar(lower[i]) /\ (i = 1 \/ ~IsWordChar(lower[i - 1]))}
      ends    == {i \in DOMAIN text :
                    IsWordChar(lower[i])
                    /\ (i = Len(text) \/ ~IsWordChar(lower[i + 1]))}
      Nth(S, n) == CHOOSE i \in S : Cardinality({j \in S : j < i}) = n - 1
  IN  [n \in 1..Cardinality(starts) |->
         SubSeq(lower, Nth(starts, n), Nth(ends, n))]

\* tokenize(text): the words of length > 1, in order
tokenize(text) == SelectSeq(Words(text), LAMBDA w : Len(w) > 1)

RECURSIVE HashFrom(_, _, _, _)
\* hash = ((hash << 5) - hash) + char; hash = hash & hash, as an unsigned
\* 32-bit word kept in two 16-bit halves <<hi, lo>>
HashFrom(str, i, hi, lo) ==
  IF i > Len(str) THEN <<hi, lo>>
  ELSE LET l  == lo * 31 + str[i]
           h  == hi * 31 + l \div 65536
       IN  HashFrom(str, i + 1, h % 65536, l % 65536)

hashString(str) == HashFrom(str, 1, 0, 0)

\* hash >= 0 ? 1 : -1 on the signed reading of the word
HashSign(h) == IF h[1] >= 32768 THEN -1 ELSE 1

\* Math.abs(hash) % dimension
HashIndex(h, dim) ==
  IF h[1] >= 32768
  THEN (((65535 - h[1]) % dim) * (65536 % dim) + (65536 - h[2])) % dim
  ELSE ((h[1] % dim) * (65536 % dim) + h[2]) % dim

RECURSIVE Unique(_, _)
\* new Set(tokens) / the keys of the tf Map: first occurrences, in order
Unique(tokens, acc) ==
  IF tokens = <<>> THEN acc
  ELSE Unique(Tail(tokens),
              IF Head(tokens) \in Range(acc) THEN acc
              ELSE Append(acc, Head(tokens)))

Count(tokens, t) == Cardinality({i \in DOMAIN tokens : tokens[i] = t})

RECURSIVE MaxOver(_, _, _)
MaxOver(tokens, terms, m) ==
  IF terms = <<>> THEN m
  ELSE MaxOver(tokens, Tail(terms),
               IF Count(tokens, Head(terms)) > m THEN Count(tokens, Head(terms))
               ELSE m)

\* the vectorizer before any buildVocabulary (constructor)
NewEmbeddings == [vocabulary |-> <<>>, idf |-> <<>>, documentCount |-> 0]

\* docFreq after the tokenizing loop: the number of documents holding term
DocFreq(documents, term) ==
  Cardinality({i \in DOMAIN documents : term \in Range(tokenize(documents[i]))})

RECURSIVE AllTerms(_, _)
\* the distinct tokens of the documents in order of first occurrence (the
\* insertion order of docFreq)
AllTerms(documents, acc) ==
  IF documents = <<>> THEN acc
  ELSE AllTerms(Tail(documents), Unique(tokenize(Head(documents)), acc))

\* Math.log((this.documentCount + 1) / (df + 1)) + 1
IdfValue(n, df) == Ln(n + 1) - Ln(df + 1) + One

\* buildVocabulary(documents) on the vectorizer state e: documentCount is
\* overwritten, vocabulary gets the new tokens appended, idf gets one
\* idf.set per term of these documents; neither Map is cleared first
buildVocabulary(e, documents) ==
  LET terms == AllTerms(documents, <<>>)
      n     == Len(documents)
  IN  [vocabulary    |-> Unique(terms, e.vocabulary),
       idf           |-> [t \in DOMAIN e.idf \cup Range(terms) |->
                            IF t \in Range(terms)
                            THEN IdfValue(n, DocFreq(documents, t))
                            ELSE e.idf[t]],
       documentCount |-> n]

\* LocalEmbeddings.initialize(documents)
EmbeddingsInitialize(e, documents) ==
  IF Len(documents) > 0 THEN buildVocabulary(e, documents) ELSE e

\* normalize(vector)
normalize(vector) ==
  LET RECURSIVE SumSq(_)
      SumSq(i) == IF i = 0 THEN 0 ELSE vector[i] * vector[i] + SumSq(i - 1)
      norm == Sqrt(SumSq(Len(vector)))
  IN  IF norm = 0 THEN vector
      ELSE [i \in DOMAIN vector |-> Quot(vector[i] * One, norm)]

\* the dense-vector weight of one term: this.idf.get(term) || 1
DenseIdf(e, term) ==
  IF term \in DOMAIN e.idf /\ e.idf[term] # 0 THEN e.idf[term] ELSE One

RECURSIVE Accumulate(_, _, _, _, _)
\* the hashing-trick loop over the entries of tf
Accumulate(e, tokens, terms, maxTf, vector) ==
  IF terms = <<>> THEN vector
  ELSE LET term  == Head(terms)
           hash  == hashString(term)
           index == HashIndex(hash, Len(vector)) + 1
           add   == HashSign(hash) * Quot(Count(tokens, term) * DenseIdf(e, term), maxTf)
       IN  Accumulate(e, tokens, Tail(terms), maxTf,
                      [vector EXCEPT ![index] = @ + add])

\* embed(text) under the vectorizer state e
embed(e, text) ==
  LET tokens == tokenize(text)
      terms  == Unique(tokens, <<>>)
      maxTf  == MaxOver(tokens, terms, 1)
  IN  normalize(Accumulate(e, tokens, terms, maxTf, [i \in 1..Dimension |-> 0]))

DimensionMismatch == "Vectors must have the same dimension"

\* mutant of Mismatch: the lengths are not compared
MismatchNever(a, b) == FALSE

\* the test that opens cosineSimilarity: a.length !== b.length
Mismatch(a, b) == Len(a) # Len(b)

\* cosineSimilarity(a, b): the dot product, or the error thrown
cosineSimilarity(a, b) ==
  LET RECURSIVE Dot(_)
      Dot(i) == IF i = 0 THEN 0 ELSE a[i] * b[i] + Dot(i - 1)
  IN  IF Mismatch(a, b) THEN DimensionMismatch
      ELSE Quot(Dot(Min(Len(a), Len(b))), One)

RECURSIVE InsertSortedUnstable(_, _)
\* mutant of InsertSorted: x goes before the elements that score as it does
InsertSortedUnstable(sorted, x) ==
  IF sorted = <<>> THEN <<x>>
  ELSE IF Head(sorted).score > x.score
       THEN <<Head(sorted)>> \o InsertSortedUnstable(Tail(sorted), x)
       ELSE <<x>> \o sorted

RECURSIVE InsertSorted(_, _)
\* one step of a stable sort by (a, b) => b.score - a.score: x goes after
\* every element that does not score lower than it
InsertSorted(sorted, x) ==
  IF sorted = <<>> THEN <<x>>
  ELSE IF Head(sorted).score >= x.score
       THEN <<Head(sorted)>> \o InsertSorted(Tail(sorted), x)
       ELSE <<x>> \o sorted

RECURSIVE SortByScore(_, _)
SortByScore(scores, acc) ==
  IF scores = <<>> THEN acc
  ELSE SortByScore(Tail(scores), InsertSorted(acc, Head(scores)))

\* Array.prototype.slice(0, n) for n >= 0
Slice(s, n) == SubSeq(s, 1, Min(n, Len(s)))

\* whether findSimilar throws: documents.map calls cosineSimilarity on every
\* document, and nothing catches what it throws
FindSimilarThrows(queryVector, documents) ==
  \E i \in DOMAIN documents : Mismatch(queryVector, documents[i].vector)

\* findSimilar(queryVector, documents, topK), when it does not throw
findSimilar(queryVector, documents, topK) ==
  LET scores == [i \in DOMAIN documents |->
                   [id |-> documents[i].id,
                    score |-> cosineSimilarity(queryVector, documents[i].vector)]]
  IN  Slice(SortByScore(scores, <<>>), topK)

(***************************************************************************)
(* Inputs: texts as character codes.                                       *)
(***************************************************************************)
\* "ml ai"
TextMlAi == <<109, 108, 32, 97, 105>>
\* "db"
TextDb == <<100, 98>>
\* "France ml!a"
TextFrance == <<70, 114, 97, 110, 99, 101, 32, 109, 108, 33, 97>>
\* "ml"
TextMl == <<109, 108>>

\* the rows a CSV file is made of: the id column and the content column
Rows == {[id |-> "a", content |-> TextMlAi], [id |-> "b", content |-> TextDb]}

\* documents handed to addDocument; id "" stands for a missing (falsy) id
AddIds == {"", "a", "c"}
AddContents == {TextFrance}

\* queries handed to retrieve and query
Queries == {TextMl, TextDb}
\* topK arguments; 0 stands for an omitted (falsy) topK
TopKs == {0, 1}
\* config.similarityThreshold handed to updateConfig, in thousandths:
\* <<value>>, or <<>> when the field is undefined
Thresholds == {<<>>, <<0>>}

\* sequences over S of length at most n
RECURSIVE SeqsUpTo(_, _)
SeqsUpTo(S, n) ==
  IF n = 0 THEN {<<>>}
  ELSE LET shorter == SeqsUpTo(S, n - 1)
       IN  shorter \cup {Append(q, x) : q \in shorter, x \in S}

\* `doc_${n}`
DocNames == <<"doc_0", "doc_1", "doc_2", "doc_3", "doc_4", "doc_5", "doc_6",
              "doc_7", "doc_8", "doc_9", "doc_10", "doc_11">>

GeneratedId(n) == DocNames[n + 1]

(***************************************************************************)
(* CSVDataSource: loadDocuments, search, addDocument.                      *)
(***************************************************************************)
\* loadDocuments(): one document per record of the file; the id is the id
\* column when it is set and non-empty, `doc_${index}` otherwise
CsvLoad(rows) ==
  [i \in DOMAIN rows |->
     [id      |-> IF rows[i].id # "" THEN rows[i].id ELSE GeneratedId(i - 1),
      content |-> rows[i].content]]

Lower(text) == [i \in DOMAIN text |-> toLowerCase(text[i])]

\* whether needle occurs in hay at position i
OccursAt(hay, needle, i) ==
  /\ i + Len(needle) - 1 <= Len(hay)
  /\ \A j \in 1..Len(needle) : hay[i + j - 1] = needle[j]

\* String.prototype.includes
Includes(hay, needle) == \E i \in 1..(Len(hay) + 1) : OccursAt(hay, needle, i)

RECURSIVE MatchCount(_, _, _)
\* contentLower.match(new RegExp(term, 'gi')): non-overlapping occurrences
\* of a term made of word characters
MatchCount(hay, term, i) ==
  IF i > Len(hay) THEN 0
  ELSE IF OccursAt(hay, term, i) THEN 1 + MatchCount(hay, term, i + Len(term))
  ELSE MatchCount(hay, term, i + 1)

RECURSIVE SplitSpace(_, _, _, _)
\* queryLower.split(/\s+/)
SplitSpace(text, i, word, acc) ==
  IF i > Len(text) THEN Append(acc, word)
  ELSE IF text[i] \in {9, 10, 13, 32}
       THEN IF i > 1 /\ text[i - 1] \in {9, 10, 13, 32}
            THEN SplitSpace(text, i + 1, word, acc)
            ELSE SplitSpace(text, i + 1, <<>>, Append(acc, word))
       ELSE SplitSpace(text, i + 1, Append(word, text[i]), acc)

RECURSIVE TermScore(_, _)
TermScore(contentLower, terms) ==
  IF terms = <<>> THEN 0
  ELSE (IF Len(Head(terms)) > 2 THEN MatchCount(contentLower, Head(terms), 1) ELSE 0)
       + TermScore(contentLower, Tail(terms))

\* the relevance score search gives one document
SearchScore(content, query) ==
  (IF Includes(Lower(content), Lower(query)) THEN 10 ELSE 0)
  + TermScore(Lower(content), SplitSpace(Lower(query), 1, <<>>, <<>>))

\* search(query, limit)
CsvSearch(docs, query, limit) ==
  LET scored == [i \in DOMAIN docs |->
                   [id |-> docs[i].id, content |-> docs[i].content,
                    score |-> SearchScore(docs[i].content, query)]]
  IN  Slice(SortByScore(SelectSeq(scored, LAMBDA d : d.score > 0), <<>>), limit)

\* addDocument(document): document.id || `doc_${this.documents.length}`
CsvNewId(docs, id) == IF id # "" THEN id ELSE GeneratedId(Len(docs))

(***************************************************************************)
(* RAGEngine: the vector cache (a Map in insertion order) and retrieval.   *)
(***************************************************************************)
\* mutant of MapSet: the entry goes last whether its key is new or not
MapSetAppend(map, entry) == Append(map, entry)

\* Map.prototype.set: an existing key keeps its place, a new key goes last
MapSet(map, entry) ==
  IF \E i \in DOMAIN map : map[i].id = entry.id
  THEN [i \in DOMAIN map |-> IF map[i].id = entry.id THEN entry ELSE map[i]]
  ELSE Append(map, entry)

\* Map.prototype.get
MapGet(map, id) == map[CHOOSE i \in DOMAIN map : map[i].id = id]

\* mutant of Keeps: the filter loop without its limit
KeepsUnlimited(score, threshold, results, k) == score >= threshold

\* the test of the filter loop: score >= this.similarityThreshold &&
\* results.length < topK
Keeps(score, threshold, results, k) == score >= threshold /\ Len(results) < k

RECURSIVE FilterLoop(_, _, _, _, _)
\* for (const { id, score } of similarities) { if (...) results.push(...) }
FilterLoop(map, similarities, threshold, k, results) ==
  IF similarities = <<>> THEN results
  ELSE LET s   == Head(similarities)
           doc == MapGet(map, s.id)
       IN  FilterLoop(map, Tail(similarities), threshold, k,
                      IF Keeps(s.score, threshold, results, k)
                      THEN Append(results, [id |-> doc.id, content |-> doc.content,
                                            score |-> s.score])
                      ELSE results)

\* mutant of FallsBack: no fallback when nothing passes the threshold
FallsBackNever(results, similarities) == FALSE

\* results.length === 0 && similarities.length > 0
FallsBack(results, similarities) == Len(results) = 0 /\ Len(similarities) > 0

\* the number of candidates asked of findSimilar: topK * 2
Candidates(k) == k * 2

\* retrieveByVector after the query is embedded: rank, filter, fall back
RankAndFilter(map, queryVector, threshold, k) ==
  LET similarities == findSimilar(queryVector, map, Candidates(k))
      results      == FilterLoop(map, similarities, threshold, k, <<>>)
      top          == Slice(similarities, k)
  IN  [similarities |-> similarities,
       results |->
         IF FallsBack(results, similarities)
         THEN [i \in DOMAIN top |->
                 [id |-> MapGet(map, top[i].id).id,
                  content |-> MapGet(map, top[i].id).content,
                  score |-> top[i].score]]
         ELSE results]

\* retrieveByVector after the query is embedded: the error findSimilar
\* throws, or the results
retrieveByVector(map, queryVector, threshold, k) ==
  IF FindSimilarThrows(queryVector, map)
  THEN [error |-> DimensionMismatch, similarities |-> <<>>, results |-> <<>>]
  ELSE LET found == RankAndFilter(map, queryVector, threshold, k)
       IN  [error |-> "", similarities |-> found.similarities,
            results |-> found.results]

(***************************************************************************)
(* State.                                                                  *)
(***************************************************************************)
VARIABLES
  config,               \* the constructor's argument: which collaborators are set
  initialized,          \* RAGEngine.initialized
  topK,                 \* RAGEngine.topK
  similarityThreshold,  \* RAGEngine.similarityThreshold
  documentVectors,      \* RAGEngine.documentVectors, in insertion order
  emb,                  \* the LocalEmbeddings instance: vocabulary, idf, documentCount
  file,                 \* the rows of the CSV file on disk
  documents,            \* CSVDataSource.documents
  dsInitialized,        \* CSVDataSource.initialized
  llmInitialized,       \* whether llm.initialize() has resolved
  llmCalls,             \* calls of llm.generateResponse made so far
  init,                 \* the initialize() call in flight
  refr,                 \* the refresh() call in flight
  add,                  \* the addDocument() call in flight
  qry,                  \* the retrieve()/query()/queryStream() call in
                        \* flight; ready, afterRefresh and cache record
                        \* this.initialized, settled and the vector cache as
                        \* they were when the call was made; events are the
                        \* events a queryStream() has yielded and produced
                        \* the chunks its provider has yielded
  cls,                  \* the close() call in flight
  ret,                  \* what the call that returned last gave its caller
  closed,               \* whether a close() call has returned
  settled,              \* a refresh() returned with nothing else in flight, and
                        \* no initialize, addDocument or refresh was called since
  calls,                \* engine calls made so far
  edits,                \* edits of the file made so far
  call,                 \* the library function applied last outside the
                        \* engine: its name, its arguments and its outcome
  chunker,              \* FileDataSource.chunkText: its configuration, its
                        \* argument and the locals of its loop
  fds,                  \* a FileDataSource with its watcher: the directory
                        \* on disk, this.documents, the loadDocuments() runs
                        \* in flight and the pending debounce timers
  guard                 \* a Guardrails instance: its rate limit, the clock
                        \* and this.requestCounts

vars == <<config, initialized, topK, similarityThreshold, documentVectors, emb,
          file, documents, dsInitialized, llmInitialized, llmCalls,
          init, refr, add, qry, cls, ret, closed, settled, calls, edits,
          call, chunker, fds, guard>>

\* the state the engine's operations never touch
aside == <<call, chunker, fds, guard>>

\* no library function applied yet (a behaviour applies one, once), no
\* chunkText in progress, no FileDataSource and no Guardrails constructed
NoCall == [name |-> ""]
NoChunker == [pc |-> "idle"]
NoSource == [pc |-> "none"]
NoGuard == [pc |-> "none"]

engineFields == <<initialized, topK, similarityThreshold, documentVectors>>

\* a call of buildVectorIndex not in flight
NoLoop == [docs |-> <<>>, live |-> FALSE, i |-> 0, vector |-> <<>>]

IdleInit == [pc |-> "idle", loop |-> NoLoop]
IdleRefresh == [pc |-> "idle", loop |-> NoLoop]
IdleAdd == [pc |-> "idle", id |-> "", content |-> <<>>, vector |-> <<>>]
IdleQuery == [pc |-> "idle", kind |-> "", query |-> <<>>, topK |-> 0,
              vector |-> <<>>, cache |-> <<>>, docs |-> <<>>, events |-> <<>>,
              produced |-> <<>>, ready |-> FALSE, afterRefresh |-> FALSE]
IdleClose == [pc |-> "idle"]

NoReturn == [op |-> "", error |-> "", results |-> <<>>, similarities |-> <<>>,
             topK |-> 0, threshold |-> 0, size |-> 0, ready |-> FALSE,
             afterRefresh |-> FALSE, query |-> <<>>, answer |-> <<>>,
             events |-> <<>>, produced |-> <<>>]

\* what a returning call hands back: its name and the error thrown ("" when
\* it returned normally)
Returned(op, error) == [NoReturn EXCEPT !.op = op, !.error = error]

ConfigError == {"Data source is required", "LLM is required"}
NotInitialized == "RAG engine not initialized. Call initialize() first."
TypeError == "TypeError: Cannot read properties of undefined"
\* mutant of UpstreamFailure: a failed call of a collaborator leaves no error
UpstreamFailureNone == ""

\* the error a data-source or provider call rejects with
UpstreamFailure == "upstream failure"

\* the rest of the constructor, and the collaborators and callers before
\* any call
Constructed ==
  /\ initialized = FALSE
  /\ documentVectors = <<>>
  /\ emb = NewEmbeddings
  /\ file \in SeqsUpTo(Rows, MaxRows)
  /\ documents = <<>>
  /\ dsInitialized = FALSE
  /\ llmInitialized = FALSE
  /\ llmCalls = 0
  /\ init = IdleInit
  /\ refr = IdleRefresh
  /\ add = IdleAdd
  /\ qry = IdleQuery
  /\ cls = IdleClose
  /\ ret = NoReturn
  /\ closed = FALSE
  /\ settled = FALSE
  /\ calls = 0
  /\ edits = 0
  /\ call = NoCall
  /\ chunker = NoChunker
  /\ fds = NoSource
  /\ guard = NoGuard

\* constructor(config) with neither topK nor similarityThreshold given:
\* topK = config.topK || 5, similarityThreshold = config.similarityThreshold || 0.3
Init ==
  /\ config \in [dataSource : BOOLEAN, llm : BOOLEAN, embeddings : BOOLEAN]
  /\ topK = DefaultTopK
  /\ similarityThreshold = DefaultThreshold
  /\ Constructed

(***************************************************************************)
(* buildVectorIndex, as both initialize() and refresh() run it.  embed is  *)
(* an async function without an await of its own: the vector is computed   *)
(* when embed is called and stored when the await on it resumes.           *)
(***************************************************************************)
\* const documents = this.dataSource.getDocuments(); the loop's first embed
LoopStart ==
  [docs   |-> documents,
   live   |-> TRUE,
   i      |-> IF documents = <<>> THEN 0 ELSE 1,
   vector |-> IF documents = <<>> THEN <<>> ELSE embed(emb, documents[1].content)]

\* whether the loop has a document whose embed is awaited
LoopBusy(loop) == loop.i >= 1 /\ loop.i <= Len(loop.docs)

\* this.documentVectors.set(doc.id, {...doc, vector})
LoopStore(loop) ==
  MapSet(documentVectors,
         [id |-> loop.docs[loop.i].id, content |-> loop.docs[loop.i].content,
          vector |-> loop.vector])

\* the next iteration: the embed of the next document, if there is one
LoopAdvance(loop) ==
  [loop EXCEPT !.i = @ + 1,
               !.vector = IF loop.i < Len(loop.docs)
                          THEN embed(emb, loop.docs[loop.i + 1].content)
                          ELSE <<>>]

\* this.documents = records.map(...) makes a new array: a loop that runs
\* over the old one no longer sees what is pushed to this.documents
Detach(loop) == [loop EXCEPT !.live = FALSE]

\* this.documents.push(newDoc) is seen by a loop that runs over that array
Push(loop, doc) == IF loop.live THEN [loop EXCEPT !.docs = Append(@, doc)] ELSE loop

Contents(docs) == [i \in DOMAIN docs |-> docs[i].content]

(***************************************************************************)
(* initialize()                                                            *)
(***************************************************************************)
\* mutant of ConfigCheck: the LLM check is missing
ConfigCheckSourceOnly ==
  IF ~config.dataSource THEN "Data source is required" ELSE ""

\* the two checks that open initialize(): the error thrown, "" when none
ConfigCheck ==
  IF ~config.dataSource THEN "Data source is required"
  ELSE IF ~config.llm THEN "LLM is required"
  ELSE ""

\* initialize() up to its first await: the checks, then
\* dataSource.initialize() unless the source is initialized already, then
\* llm.initialize()
InitializeCall ==
  /\ init.pc = "idle"
  /\ calls < MaxCalls
  /\ calls' = calls + 1
  /\ settled' = FALSE
  /\ IF ConfigCheck # ""
     THEN /\ ret' = Returned("initialize", ConfigCheck)
          /\ init' = init
     ELSE /\ init' = [init EXCEPT !.pc = IF dsInitialized THEN "llm" ELSE "source"]
          /\ ret' = ret
  /\ UNCHANGED <<aside, config, engineFields, emb, file, documents, dsInitialized,
                 llmInitialized, llmCalls, refr, add, qry, cls, closed, edits>>

\* CSVDataSource.initialize(): the file is read and parsed into
\* this.documents, or the source fails; then llm.initialize() is called
InitializeSource ==
  /\ init.pc = "source"
  /\ \E ok \in BOOLEAN :
       IF ok
       THEN /\ documents' = CsvLoad(file)
            /\ dsInitialized' = TRUE
            /\ init' = [init EXCEPT !.pc = "llm"]
            /\ refr' = [refr EXCEPT !.loop = Detach(@)]
            /\ ret' = ret
       ELSE /\ ret' = Returned("initialize", UpstreamFailure)
            /\ init' = IdleInit
            /\ UNCHANGED <<documents, dsInitialized, refr>>
  /\ UNCHANGED <<aside, config, engineFields, emb, file, llmInitialized, llmCalls,
                 add, qry, cls, closed, settled, calls, edits>>

\* llm.initialize() resolves or rejects; with a vectorizer,
\* embeddings.initialize(texts) then builds the vocabulary; without one the
\* engine is initialized
InitializeLlm ==
  /\ init.pc = "llm"
  /\ \E ok \in BOOLEAN :
       IF ~ok
       THEN /\ ret' = Returned("initialize", UpstreamFailure)
            /\ init' = IdleInit
            /\ UNCHANGED <<llmInitialized, emb, initialized>>
       ELSE /\ llmInitialized' = TRUE
            /\ IF config.embeddings
               THEN /\ emb' = EmbeddingsInitialize(emb, Contents(documents))
                    /\ init' = [init EXCEPT !.pc = "vocabulary"]
                    /\ UNCHANGED <<initialized, ret>>
               ELSE /\ initialized' = TRUE
                    /\ init' = IdleInit
                    /\ ret' = Returned("initialize", "")
                    /\ emb' = emb
  /\ UNCHANGED <<aside, config, topK, similarityThreshold, documentVectors, file,
                 documents, dsInitialized, llmCalls, refr, add, qry, cls,
                 closed, settled, calls, edits>>

\* buildVectorIndex() is entered; with no document it returns at once and
\* initialize() sets this.initialized
InitializeIndexStart ==
  /\ init.pc = "vocabulary"
  /\ IF documents = <<>>
     THEN /\ initialized' = TRUE
          /\ init' = IdleInit
          /\ ret' = Returned("initialize", "")
     ELSE /\ init' = [pc |-> "index", loop |-> LoopStart]
          /\ UNCHANGED <<initialized, ret>>
  /\ UNCHANGED <<aside, config, topK, similarityThreshold, documentVectors, emb, file,
                 documents, dsInitialized, llmInitialized, llmCalls, refr, add,
                 qry, cls, closed, settled, calls, edits>>

\* one await of the loop resumes: the entry is stored; after the last
\* document initialize() sets this.initialized
InitializeIndexStep ==
  /\ init.pc = "index"
  /\ documentVectors' = LoopStore(init.loop)
  /\ IF init.loop.i < Len(init.loop.docs)
     THEN /\ init' = [init EXCEPT !.loop = LoopAdvance(@)]
          /\ UNCHANGED <<initialized, ret>>
     ELSE /\ initialized' = TRUE
          /\ init' = IdleInit
          /\ ret' = Returned("initialize", "")
  /\ UNCHANGED <<aside, config, topK, similarityThreshold, emb, file, documents,
                 dsInitialized, llmInitialized, llmCalls, refr, add, qry, cls,
                 closed, settled, calls, edits>>

(***************************************************************************)
(* refresh()                                                               *)
(***************************************************************************)
OthersIdle ==
  init.pc = "idle" /\ add.pc = "idle" /\ qry.pc = "idle" /\ cls.pc = "idle"

\* refresh() up to its first await: dataSource.loadDocuments() is called
RefreshCall ==
  /\ refr.pc = "idle"
  /\ calls < MaxCalls
  /\ calls' = calls + 1
  /\ settled' = FALSE
  /\ IF ~config.dataSource
     THEN /\ ret' = Returned("refresh", TypeError)
          /\ refr' = refr
     ELSE /\ refr' = [refr EXCEPT !.pc = "load"]
          /\ ret' = ret
  /\ UNCHANGED <<aside, config, engineFields, emb, file, documents, dsInitialized,
                 llmInitialized, llmCalls, init, add, qry, cls, closed, edits>>

\* loadDocuments() resolves with the file's records in a new array, or the
\* source fails; with a vectorizer buildVocabulary(texts) then runs
RefreshLoad ==
  /\ refr.pc = "load"
  /\ \E ok \in BOOLEAN :
       IF ~ok
       THEN /\ ret' = Returned("refresh", UpstreamFailure)
            /\ refr' = IdleRefresh
            /\ UNCHANGED <<documents, emb, init, settled>>
       ELSE /\ documents' = CsvLoad(file)
            /\ init' = [init EXCEPT !.loop = Detach(@)]
            /\ IF config.embeddings
               THEN /\ emb' = buildVocabulary(emb, Contents(CsvLoad(file)))
                    /\ refr' = [refr EXCEPT !.pc = "vocabulary"]
                    /\ UNCHANGED <<ret, settled>>
               ELSE /\ refr' = IdleRefresh
                    /\ ret' = Returned("refresh", "")
                    /\ settled' = OthersIdle
                    /\ emb' = emb
  /\ UNCHANGED <<aside, config, engineFields, file, dsInitialized, llmInitialized,
                 llmCalls, add, qry, cls, closed, calls, edits>>

\* buildVectorIndex() is entered over the source's current documents
RefreshIndexStart ==
  /\ refr.pc = "vocabulary"
  /\ IF documents = <<>>
     THEN /\ refr' = IdleRefresh
          /\ ret' = Returned("refresh", "")
          /\ settled' = OthersIdle
     ELSE /\ refr' = [pc |-> "index", loop |-> LoopStart]
          /\ UNCHANGED <<ret, settled>>
  /\ UNCHANGED <<aside, config, engineFields, emb, file, documents, dsInitialized,
                 llmInitialized, llmCalls, init, add, qry, cls, closed, calls,
                 edits>>

\* one await of the loop resumes: the entry is stored over whatever the
\* cache holds under that id; after the last document refresh() returns
RefreshIndexStep ==
  /\ refr.pc = "index"
  /\ documentVectors' = LoopStore(refr.loop)
  /\ IF refr.loop.i < Len(refr.loop.docs)
     THEN /\ refr' = [refr EXCEPT !.loop = LoopAdvance(@)]
          /\ UNCHANGED <<ret, settled>>
     ELSE /\ refr' = IdleRefresh
          /\ ret' = Returned("refresh", "")
          /\ settled' = OthersIdle
  /\ UNCHANGED <<aside, config, initialized, topK, similarityThreshold, emb, file,
                 documents, dsInitialized, llmInitialized, llmCalls, init, add,
                 qry, cls, closed, calls, edits>>

(***************************************************************************)
(* addDocument(document)                                                   *)
(***************************************************************************)
\* addDocument() up to its await: CSVDataSource.addDocument pushes the
\* document to this.documents and returns its id
AddDocumentCall(id, content) ==
  /\ add.pc = "idle"
  /\ calls < MaxCalls
  /\ calls' = calls + 1
  /\ settled' = FALSE
  /\ IF ~config.dataSource
     THEN /\ ret' = Returned("addDocument", TypeError)
          /\ UNCHANGED <<add, documents, init, refr>>
     ELSE LET newId == CsvNewId(documents, id)
              doc   == [id |-> newId, content |-> content]
          IN  /\ documents' = Append(documents, doc)
              /\ init' = [init EXCEPT !.loop = Push(@, doc)]
              /\ refr' = [refr EXCEPT !.loop = Push(@, doc)]
              /\ add' = [add EXCEPT !.pc = "added", !.id = newId,
                                    !.content = content]
              /\ ret' = ret
  /\ UNCHANGED <<aside, config, engineFields, emb, file, dsInitialized, llmInitialized,
                 llmCalls, qry, cls, closed, edits>>

\* the await on dataSource.addDocument resumes: with a vectorizer the
\* content is embedded under the vocabulary as it is now, without one the
\* id is returned
AddDocumentEmbed ==
  /\ add.pc = "added"
  /\ IF config.embeddings
     THEN /\ add' = [add EXCEPT !.pc = "embedded",
                                !.vector = embed(emb, add.content)]
          /\ ret' = ret
     ELSE /\ add' = IdleAdd
          /\ ret' = [Returned("addDocument", "") EXCEPT
                       !.results = <<[id |-> add.id]>>]
  /\ UNCHANGED <<aside, config, engineFields, emb, file, documents, dsInitialized,
                 llmInitialized, llmCalls, init, refr, qry, cls, closed,
                 settled, calls, edits>>

\* this.documentVectors.set(id, {id, content, metadata, vector}); return id
AddDocumentStore ==
  /\ add.pc = "embedded"
  /\ documentVectors' =
       MapSet(documentVectors,
              [id |-> add.id, content |-> add.content, vector |-> add.vector])
  /\ add' = IdleAdd
  /\ ret' = [Returned("addDocument", "") EXCEPT !.results = <<[id |-> add.id]>>]
  /\ UNCHANGED <<aside, config, initialized, topK, similarityThreshold, emb, file,
                 documents, dsInitialized, llmInitialized, llmCalls, init, refr,
                 qry, cls, closed, settled, calls, edits>>

(***************************************************************************)
(* retrieve(query, topK) and query(query, options)                         *)
(***************************************************************************)
\* mutant of NotReady: query() without its guard
NotReadyNever == FALSE

\* the guard that opens query(): !this.initialized
NotReady == ~initialized

\* mutant of UsesVectors: the size of the cache is not looked at
UsesVectorsAlways == config.embeddings

\* retrieve()'s choice of the vector path:
\* this.embeddings && this.documentVectors.size > 0
UsesVectors == config.embeddings /\ Len(documentVectors) > 0

\* content.substring(0, 200)
PreviewLength == 200

\* "..."
Ellipsis == <<46, 46, 46>>

\* mutant of Sources: the content is not cut
SourcesUncut(docs) ==
  [i \in DOMAIN docs |->
     [id |-> docs[i].id, content |-> docs[i].content, score |-> docs[i].score]]

\* the sources query() reports: the retrieved documents with their content
\* cut to a preview
Sources(docs) ==
  [i \in DOMAIN docs |->
     [id      |-> docs[i].id,
      content |-> IF Len(docs[i].content) > PreviewLength
                  THEN SubSeq(docs[i].content, 1, PreviewLength) \o Ellipsis
                  ELSE docs[i].content,
      score   |-> docs[i].score]]

\* the event queryStream() yields first
SourcesEvent(docs) == [type |-> "sources", sources |-> Sources(docs)]

\* { type: 'content', content: chunk }
ContentEvent(chunk) == [type |-> "content", content |-> chunk]

\* mutant of DoneEvent: the last event is one more content event
DoneAsContent == [type |-> "content", content |-> "done"]

\* { type: 'done' }
DoneEvent == [type |-> "done"]

\* what llm.generateResponse resolves with: the provider's answer to the
\* arguments it was called with
Answer(query, docs) == [query |-> query, docs |-> docs]

\* options.topK || this.topK, and retrieve()'s default topK = this.topK
Limit(k) == IF k # 0 THEN k ELSE topK

\* a retrieve()/query() call, or the first next() of a queryStream(), up to
\* its first await.  kind is "retrieve", "query" or "stream"; k is the topK
\* argument (options.topK), 0 when it is not given
QueryCall(kind, query, k) ==
  /\ qry.pc = "idle"
  /\ calls < MaxCalls
  /\ calls' = calls + 1
  /\ LET limit == Limit(k)
     IN  IF kind # "retrieve" /\ NotReady
         THEN /\ ret' = Returned(kind, NotInitialized)
              /\ UNCHANGED <<qry, llmCalls>>
         ELSE IF UsesVectors
         THEN /\ qry' = [qry EXCEPT !.pc = "embedded", !.kind = kind,
                                    !.query = query, !.topK = limit,
                                    !.vector = embed(emb, query),
                                    !.cache = documentVectors,
                                    !.ready = initialized,
                                    !.afterRefresh = settled]
              /\ UNCHANGED <<ret, llmCalls>>
         ELSE IF ~config.dataSource
         THEN /\ ret' = Returned(kind, TypeError)
              /\ UNCHANGED <<qry, llmCalls>>
         ELSE IF kind = "retrieve"
         THEN /\ ret' = [Returned("retrieve", "") EXCEPT
                           !.results = CsvSearch(documents, query, limit),
                           !.topK = limit,
                           !.ready = initialized,
                           !.afterRefresh = settled]
              /\ UNCHANGED <<qry, llmCalls>>
         ELSE IF kind = "query"
         THEN /\ qry' = [qry EXCEPT !.pc = "generate", !.kind = kind,
                                    !.query = query, !.topK = limit,
                                    !.docs = CsvSearch(documents, query, limit),
                                    !.ready = initialized,
                                    !.afterRefresh = settled]
              /\ llmCalls' = llmCalls + 1
              /\ ret' = ret
         ELSE /\ qry' = [qry EXCEPT
                           !.pc = "yielded", !.kind = kind,
                           !.query = query, !.topK = limit,
                           !.docs = CsvSearch(documents, query, limit),
                           !.events = <<SourcesEvent(CsvSearch(documents, query,
                                                               limit))>>,
                           !.ready = initialized,
                           !.afterRefresh = settled]
              /\ UNCHANGED <<ret, llmCalls>>
  /\ UNCHANGED <<aside, config, engineFields, emb, file, documents,
                 dsInitialized, llmInitialized, init, refr, add, cls, closed,
                 settled, edits>>

\* retrieveByVector after the await on embed(query): the cache is read,
\* ranked and filtered in one piece, or findSimilar throws; retrieve()
\* returns the results, query() goes on to llm.generateResponse,
\* queryStream() yields its sources event
QueryRank ==
  /\ qry.pc = "embedded"
  /\ LET found == retrieveByVector(documentVectors, qry.vector,
                                   similarityThreshold, qry.topK)
     IN  IF found.error # ""
         THEN /\ ret' = Returned(qry.kind, found.error)
              /\ qry' = IdleQuery
              /\ llmCalls' = llmCalls
         ELSE IF qry.kind = "retrieve"
         THEN /\ ret' = [Returned("retrieve", "") EXCEPT
                           !.results = found.results,
                           !.similarities = found.similarities,
                           !.topK = qry.topK,
                           !.threshold = similarityThreshold,
                           !.size = Len(documentVectors),
                           !.ready = qry.ready,
                           !.afterRefresh = qry.afterRefresh /\ settled]
              /\ qry' = IdleQuery
              /\ llmCalls' = llmCalls
         ELSE IF qry.kind = "query"
         THEN /\ qry' = [qry EXCEPT !.pc = "generate", !.docs = found.results,
                                    !.vector = <<>>, !.cache = <<>>]
              /\ llmCalls' = llmCalls + 1
              /\ ret' = ret
         ELSE /\ qry' = [qry EXCEPT !.pc = "yielded", !.docs = found.results,
                                    !.vector = <<>>, !.cache = <<>>,
                                    !.events = <<SourcesEvent(found.results)>>]
              /\ UNCHANGED <<ret, llmCalls>>
  /\ UNCHANGED <<aside, config, engineFields, emb, file, documents,
                 dsInitialized, llmInitialized, init, refr, add, cls, closed,
                 settled, calls, edits>>

\* llm.generateResponse resolves with an answer, or rejects
QueryGenerate ==
  /\ qry.pc = "generate"
  /\ \E ok \in BOOLEAN :
       ret' = IF ok
              THEN [Returned("query", "") EXCEPT
                      !.results = Sources(qry.docs),
                      !.answer = Answer(qry.query, qry.docs),
                      !.query = qry.query,
                      !.topK = qry.topK,
                      !.ready = qry.ready,
                      !.afterRefresh = qry.afterRefresh /\ settled]
              ELSE Returned("query", UpstreamFailure)
  /\ qry' = IdleQuery
  /\ UNCHANGED <<aside, config, engineFields, emb, file, documents,
                 dsInitialized, llmInitialized, llmCalls, init, refr, add, cls,
                 closed, settled, calls, edits>>

(***************************************************************************)
(* queryStream(query, options) after its sources event.  The generator     *)
(* runs when its consumer asks for the next event.                         *)
(***************************************************************************)
\* the consumer resumes the generator after the sources event:
\* llm.generateStreamingResponse is called and its first chunk awaited
StreamStart ==
  /\ qry.pc = "yielded"
  /\ qry' = [qry EXCEPT !.pc = "streaming"]
  /\ llmCalls' = llmCalls + 1
  /\ UNCHANGED <<aside, config, engineFields, emb, file, documents,
                 dsInitialized, llmInitialized, init, refr, add, cls, ret,
                 closed, settled, calls, edits>>

\* the provider's stream yields a chunk: the generator yields one content
\* event for it and, resumed, awaits the next chunk
StreamChunk(chunk) ==
  /\ qry.pc = "streaming"
  /\ Len(qry.produced) < MaxChunks
  /\ qry' = [qry EXCEPT !.produced = Append(@, chunk),
                        !.events = Append(@, ContentEvent(chunk))]
  /\ UNCHANGED <<aside, config, engineFields, emb, file, documents,
                 dsInitialized, llmInitialized, llmCalls, init, refr, add, cls,
                 ret, closed, settled, calls, edits>>

\* the provider's stream ends: the generator yields its done event and,
\* resumed, returns; or the provider's stream throws, and so does the
\* generator
StreamEnd ==
  /\ qry.pc = "streaming"
  /\ \E ok \in BOOLEAN :
       ret' = [Returned("stream", IF ok THEN "" ELSE UpstreamFailure) EXCEPT
                 !.events = IF ok THEN Append(qry.events, DoneEvent)
                            ELSE qry.events,
                 !.produced = qry.produced,
                 !.results = qry.docs,
                 !.query = qry.query,
                 !.topK = qry.topK,
                 !.ready = qry.ready]
  /\ qry' = IdleQuery
  /\ UNCHANGED <<aside, config, engineFields, emb, file, documents,
                 dsInitialized, llmInitialized, llmCalls, init, refr, add, cls,
                 closed, settled, calls, edits>>

(***************************************************************************)
(* close(), updateConfig(config), getStats()                               *)
(***************************************************************************)
\* close() up to its await: BaseDataSource.close() clears the source's
\* flag; without a source close() clears this.initialized at once
CloseCall ==
  /\ cls.pc = "idle"
  /\ calls < MaxCalls
  /\ calls' = calls + 1
  /\ IF config.dataSource
     THEN /\ dsInitialized' = FALSE
          /\ cls' = [pc |-> "closing"]
          /\ UNCHANGED <<initialized, ret, closed>>
     ELSE /\ initialized' = FALSE
          /\ ret' = Returned("close", "")
          /\ closed' = TRUE
          /\ UNCHANGED <<dsInitialized, cls>>
  /\ UNCHANGED <<aside, config, topK, similarityThreshold, documentVectors, emb, file,
                 documents, llmInitialized, llmCalls, init, refr, add, qry,
                 settled, edits>>

\* this.initialized = false
CloseDone ==
  /\ cls.pc = "closing"
  /\ initialized' = FALSE
  /\ cls' = IdleClose
  /\ closed' = TRUE
  /\ ret' = Returned("close", "")
  /\ UNCHANGED <<aside, config, topK, similarityThreshold, documentVectors, emb, file,
                 documents, dsInitialized, llmInitialized, llmCalls, init, refr,
                 add, qry, settled, calls, edits>>

\* updateConfig(config): k is config.topK (0 when falsy), t is
\* config.similarityThreshold as <<value>>, or <<>> when undefined
UpdateConfig(k, t) ==
  /\ calls < MaxCalls
  /\ calls' = calls + 1
  /\ topK' = IF k # 0 THEN k ELSE topK
  /\ similarityThreshold' = IF t # <<>> THEN t[1] ELSE similarityThreshold
  /\ ret' = Returned("updateConfig", "")
  /\ UNCHANGED <<aside, config, initialized, documentVectors, emb, file, documents,
                 dsInitialized, llmInitialized, llmCalls, init, refr, add, qry,
                 cls, closed, settled, edits>>

\* getStats().documentCount:
\* this.documentVectors.size || this.dataSource?.getDocumentCount() || 0
StatsDocumentCount ==
  IF Len(documentVectors) # 0 THEN Len(documentVectors)
  ELSE IF config.dataSource THEN Len(documents)
  ELSE 0

(***************************************************************************)
(* The environment edits the CSV file.                                     *)
(***************************************************************************)
RemoveAt(s, i) == SubSeq(s, 1, i - 1) \o SubSeq(s, i + 1, Len(s))

\* a row is removed from the file or appended to it.  Only readFile sees
\* the file, so an edit is taken when a read of the file is pending: an
\* edit at any earlier moment since the last read has the same effect
EditFile ==
  /\ edits < MaxEdits
  /\ init.pc = "source" \/ refr.pc = "load"
  /\ edits' = edits + 1
  /\ \/ \E i \in DOMAIN file : file' = RemoveAt(file, i)
     \/ /\ Len(file) < MaxRows
        /\ \E row \in Rows : file' = Append(file, row)
  /\ UNCHANGED <<aside, config, engineFields, emb, documents, dsInitialized,
                 llmInitialized, llmCalls, init, refr, add, qry, cls, ret,
                 closed, settled, calls>>

(***************************************************************************)
(* Specification.                                                          *)
(***************************************************************************)
Next ==
  \/ InitializeCall
  \/ InitializeSource
  \/ InitializeLlm
  \/ InitializeIndexStart
  \/ InitializeIndexStep
  \/ RefreshCall
  \/ RefreshLoad
  \/ RefreshIndexStart
  \/ RefreshIndexStep
  \/ \E id \in AddIds, content \in AddContents : AddDocumentCall(id, content)
  \/ AddDocumentEmbed
  \/ AddDocumentStore
  \/ \E kind \in {"retrieve", "query"}, query \in Queries, k \in TopKs :
       QueryCall(kind, query, k)
  \/ QueryRank
  \/ QueryGenerate
  \/ CloseCall
  \/ CloseDone
  \/ \E k \in {0, 2}, t \in Thresholds : UpdateConfig(k, t)
  \/ EditFile

Spec == Init /\ [][Next]_vars

(***************************************************************************)
(* The constructor's topK and similarityThreshold, updateConfig() and the  *)
(* retrievals that read them.                                              *)
(***************************************************************************)
\* config.topK handed to the constructor; 0 stands for a field that is not
\* given
ConstructorTopKs == {0, 2}
\* config.similarityThreshold handed to the constructor, in thousandths:
\* <<value>>, or <<>> when the field is not given
ConstructorThresholds == {<<>>, <<0>>, <<500>>}

\* constructor(config) on a configuration with every collaborator:
\* this.topK = config.topK || 5 and
\* this.similarityThreshold = config.similarityThreshold || 0.3
ConfigInit ==
  /\ config \in [dataSource : {TRUE}, llm : {TRUE}, embeddings : {TRUE},
                 topK : ConstructorTopKs,
                 similarityThreshold : ConstructorThresholds]
  /\ topK = IF config.topK # 0 THEN config.topK ELSE DefaultTopK
  /\ similarityThreshold =
       IF config.similarityThreshold # <<>> /\ config.similarityThreshold[1] # 0
       THEN config.similarityThreshold[1]
       ELSE DefaultThreshold
  /\ Constructed

ConfigNext ==
  \/ RefreshCall
  \/ RefreshLoad
  \/ RefreshIndexStart
  \/ RefreshIndexStep
  \/ \E query \in Queries, k \in TopKs : QueryCall("retrieve", query, k)
  \/ QueryRank
  \/ \E k \in {0, 2}, t \in Thresholds : UpdateConfig(k, t)

ConfigSpec == ConfigInit /\ [][ConfigNext]_vars

(***************************************************************************)
(* query() and queryStream() over documents longer than the preview, with  *)
(* initialize(), addDocument() and close() running beside them.            *)
(***************************************************************************)
\* "France ml!a" followed by " xxxxxxxxx" up to PreviewLength more
\* characters
TextLong ==
  TextFrance \o [i \in 1..PreviewLength |-> IF i % 10 = 1 THEN 32 ELSE 120]

\* the chunks a provider's stream is made of
Chunks == {"Par", "is"}

QueryNext ==
  \/ InitializeCall
  \/ InitializeSource
  \/ InitializeLlm
  \/ InitializeIndexStart
  \/ InitializeIndexStep
  \/ \E id \in {"", "a"} : AddDocumentCall(id, TextLong)
  \/ AddDocumentEmbed
  \/ AddDocumentStore
  \/ \E kind \in {"query", "stream"}, query \in Queries, k \in TopKs :
       QueryCall(kind, query, k)
  \/ QueryRank
  \/ QueryGenerate
  \/ StreamStart
  \/ \E chunk \in Chunks : StreamChunk(chunk)
  \/ StreamEnd
  \/ CloseCall
  \/ CloseDone

QuerySpec == Init /\ [][QueryNext]_vars

(***************************************************************************)
(* The vectorizer's cosineSimilarity and findSimilar and the engine's      *)
(* retrieveByVector, applied to vectors and caches of any length.          *)
(***************************************************************************)
\* unit vectors of two lengths, in thousandths
Vectors == {<<1000, 0>>, <<600, 800>>, <<1000, 0, 0>>}

\* documents with their vectors, as findSimilar is handed them
Embedded == [id : {"a", "b"}, vector : Vectors]

\* entries of a vector cache: at most one under an id
CacheEntries == [id : {"a", "b", "c"}, content : {TextDb}, vector : Vectors]

Caches ==
  {c \in SeqsUpTo(CacheEntries, MaxDocs) :
     \A i, j \in DOMAIN c : c[i].id = c[j].id => i = j}

\* cosineSimilarity(a, b) is called
CosineSimilarityCall(a, b) ==
  /\ call = NoCall
  /\ call' = [name  |-> "cosineSimilarity", a |-> a, b |-> b,
              error |-> IF Mismatch(a, b) THEN cosineSimilarity(a, b) ELSE "",
              out   |-> IF Mismatch(a, b) THEN <<>> ELSE <<cosineSimilarity(a, b)>>]
  /\ UNCHANGED <<config, engineFields, emb, file, documents, dsInitialized,
                 llmInitialized, llmCalls, init, refr, add, qry, cls, ret,
                 closed, settled, calls, edits, chunker, fds,
                 guard>>

\* findSimilar(queryVector, documents, topK) is called
FindSimilarCall(queryVector, docs, k) ==
  /\ call = NoCall
  /\ call' = [name  |-> "findSimilar", queryVector |-> queryVector,
              documents |-> docs, topK |-> k,
              error |-> IF FindSimilarThrows(queryVector, docs)
                        THEN DimensionMismatch ELSE "",
              out   |-> IF FindSimilarThrows(queryVector, docs) THEN <<>>
                        ELSE findSimilar(queryVector, docs, k)]
  /\ UNCHANGED <<config, engineFields, emb, file, documents, dsInitialized,
                 llmInitialized, llmCalls, init, refr, add, qry, cls, ret,
                 closed, settled, calls, edits, chunker, fds,
                 guard>>

\* retrieveByVector runs over a cache, the query being embedded already
RetrieveByVectorCall(cache, queryVector, threshold, k) ==
  /\ call = NoCall
  /\ call' = [name  |-> "retrieveByVector", queryVector |-> queryVector,
              documents |-> cache, topK |-> k, threshold |-> threshold,
              error |-> retrieveByVector(cache, queryVector, threshold, k).error,
              out   |-> retrieveByVector(cache, queryVector, threshold, k).results]
  /\ UNCHANGED <<config, engineFields, emb, file, documents, dsInitialized,
                 llmInitialized, llmCalls, init, refr, add, qry, cls, ret,
                 closed, settled, calls, edits, chunker, fds,
                 guard>>

\* an engine with every collaborator and a source without documents
LibraryInit ==
  /\ Init
  /\ config = [dataSource |-> TRUE, llm |-> TRUE, embeddings |-> TRUE]
  /\ file = <<>>

LibraryNext ==
  \/ \E a \in Vectors, b \in Vectors : CosineSimilarityCall(a, b)
  \/ \E queryVector \in Vectors, docs \in SeqsUpTo(Embedded, MaxDocs),
        k \in 0..MaxDocs :
       FindSimilarCall(queryVector, docs, k)
  \/ \E cache \in Caches, queryVector \in Vectors, k \in 1..2 :
       RetrieveByVectorCall(cache, queryVector, DefaultThreshold, k)

LibrarySpec == LibraryInit /\ [][LibraryNext]_vars

(***************************************************************************)
(* FileDataSource: the constructor's chunkSize and chunkOverlap, and       *)
(* chunkText(text), one iteration of its loop at a time.  Positions in a   *)
(* text are counted from 0, as the code counts them.                       *)
(***************************************************************************)
\* config.chunkSize || 1000
DefaultChunkSize == 1000
\* config.chunkOverlap || 200
DefaultChunkOverlap == 200

\* ['\n\n', '\n', '. ', '! ', '? ']
BreakPoints == <<(<<10, 10>>), (<<10>>), (<<46, 32>>), (<<33, 32>>), (<<63, 32>>)>>

\* whether bp occurs in text at position i
BreakAt(text, bp, i) ==
  /\ i >= 0
  /\ i + Len(bp) <= Len(text)
  /\ \A j \in 1..Len(bp) : text[i + j] = bp[j]

\* String.prototype.lastIndexOf(bp, from): the last position not after
\* from (a negative from counts as 0) where bp occurs, or -1
lastIndexOf(text, bp, from) ==
  LET limit == IF from < 0 THEN 0 ELSE from
      found == {i \in 0..limit : BreakAt(text, bp, i)}
  IN  IF found = {} THEN -1
      ELSE CHOOSE i \in found : \A j \in found : j <= i

\* String.prototype.slice(start, end): a negative index counts from the
\* end of the text, and both are cut to the text
slice(text, start, end) ==
  LET Clip(n) == IF n < 0 THEN (IF Len(text) + n < 0 THEN 0 ELSE Len(text) + n)
                 ELSE Min(n, Len(text))
  IN  SubSeq(text, Clip(start) + 1, Clip(end))

\* String.prototype.trim
trim(text) ==
  LET inked == {i \in DOMAIN text : text[i] \notin {9, 10, 13, 32}}
  IN  IF inked = {} THEN <<>>
      ELSE SubSeq(text, CHOOSE i \in inked : \A j \in inked : i <= j,
                        CHOOSE i \in inked : \A j \in inked : j <= i)

\* the test on a break point: lastBreak > start + this.chunkSize / 2
Breaks(text, bp, start, end, chunkSize) ==
  2 * lastIndexOf(text, bp, end) > 2 * start + chunkSize

\* the end of the chunk that starts at start: start + chunkSize, moved
\* back to just after the first kind of break point, in the order of the
\* list, whose last occurrence lies in the second half of the chunk
ChunkEnd(text, start, chunkSize) ==
  LET end  == start + chunkSize
      good == {n \in DOMAIN BreakPoints :
                 Breaks(text, BreakPoints[n], start, end, chunkSize)}
      n    == CHOOSE m \in good : \A k \in good : m <= k
  IN  IF end < Len(text) /\ good # {}
      THEN lastIndexOf(text, BreakPoints[n], end) + Len(BreakPoints[n])
      ELSE end

\* the texts handed to chunkText: every short text of letters and line
\* breaks, and three texts of 250 characters
ShortTexts == SeqsUpTo({97, 10}, MaxText)

\* 250 letters
TextPlain == [i \in 1..250 |-> 97]

\* 250 letters but "\n\n" at 51, ". " at 84, "! " at 117 and "? " at 150
TextBroken ==
  [i \in 1..250 |->
     CASE i \in {52, 53} -> 10
       [] i = 85  -> 46
       [] i = 118 -> 33
       [] i = 151 -> 63
       [] i \in {86, 119, 152} -> 32
       [] OTHER -> 97]

\* 250 line breaks
TextLines == [i \in 1..250 |-> 10]

\* config.chunkSize and config.chunkOverlap; 0 stands for a field that is
\* not given (or given as 0, which is falsy too)
ChunkConfigs ==
  {<<100, 20>>, <<4, 1>>, <<4, 2>>, <<5, 4>>, <<3, 0>>, <<0, 0>>}

\* new FileDataSource(config).chunkText(text) up to the loop: a text that
\* fits in one chunk is returned trimmed, in one piece
ChunkTextCall(size, overlap, text) ==
  /\ chunker.pc = "idle"
  /\ LET chunkSize    == IF size # 0 THEN size ELSE DefaultChunkSize
         chunkOverlap == IF overlap # 0 THEN overlap ELSE DefaultChunkOverlap
     IN  chunker' =
           [pc |-> IF Len(text) <= chunkSize THEN "done" ELSE "loop",
            chunkSize |-> chunkSize, chunkOverlap |-> chunkOverlap,
            text |-> text, start |-> 0, windows |-> <<>>,
            chunks |-> IF Len(text) <= chunkSize THEN <<trim(text)>> ELSE <<>>]
  /\ UNCHANGED <<config, engineFields, emb, file, documents, dsInitialized,
                 llmInitialized, llmCalls, init, refr, add, qry, cls, ret,
                 closed, settled, calls, edits, call, fds, guard>>

\* one iteration of while (start < text.length): the end is chosen, the
\* chunk pushed and start moved to end - chunkOverlap
ChunkTextStep ==
  /\ chunker.pc = "loop"
  /\ chunker.start < Len(chunker.text)
  /\ Len(chunker.windows) < MaxIterations
  /\ LET end == ChunkEnd(chunker.text, chunker.start, chunker.chunkSize)
     IN  chunker' =
           [chunker EXCEPT
              !.windows = Append(@, [start |-> chunker.start, end |-> end]),
              !.chunks  = Append(@, trim(slice(chunker.text, chunker.start, end))),
              !.start   = end - chunker.chunkOverlap]
  /\ UNCHANGED <<config, engineFields, emb, file, documents, dsInitialized,
                 llmInitialized, llmCalls, init, refr, add, qry, cls, ret,
                 closed, settled, calls, edits, call, fds, guard>>

\* the loop ends: return chunks.filter(c => c.length > 0)
ChunkTextReturn ==
  /\ chunker.pc = "loop"
  /\ chunker.start >= Len(chunker.text)
  /\ chunker' = [chunker EXCEPT
                   !.pc = "done",
                   !.chunks = SelectSeq(@, LAMBDA c : Len(c) > 0)]
  /\ UNCHANGED <<config, engineFields, emb, file, documents, dsInitialized,
                 llmInitialized, llmCalls, init, refr, add, qry, cls, ret,
                 closed, settled, calls, edits, call, fds, guard>>

ChunkNext ==
  \/ \E c \in ChunkConfigs, text \in ShortTexts \cup {TextPlain, TextBroken, TextLines} :
       ChunkTextCall(c[1], c[2], text)
  \/ ChunkTextStep
  \/ ChunkTextReturn

ChunkSpec == LibraryInit /\ [][ChunkNext]_vars

(***************************************************************************)
(* FileDataSource over a directory of text files, with its watcher:        *)
(* loadDocuments() one await at a time, addDocument(), and handleChange    *)
(* with its debounce timer.  Times are in milliseconds.                    *)
(***************************************************************************)
\* config.watchDebounce || 2000
DefaultWatchDebounce == 2000
\* the step by which time advances
TickMs == 1000
\* file-change events the watcher reports in one behaviour
MaxEvents == 2
\* loadDocuments() runs in flight at once
MaxLoads == 2
\* addDocument() calls on the source in one behaviour
MaxAdds == 1

\* the engine's own state, which the source, its watcher and the guardrails
\* never touch
engine == <<config, engineFields, emb, file, documents, dsInitialized,
            llmInitialized, llmCalls, init, refr, add, qry, cls, ret, closed,
            settled, calls, edits>>

\* the files a watched directory can hold, in the order readdir lists them
FileNames == <<"f.txt", "g.txt">>

\* config.watchDebounce as given; 0 stands for a field that is not given
WatchDebounces == {0, 1000}

\* readFile(filePath, 'utf-8')
FileText(name) == IF name = "f.txt" THEN TextDb ELSE TextMlAi

\* `${fileName}_chunk_${index}` for the one chunk of a short file
ChunkId(name) == IF name = "f.txt" THEN "f.txt_chunk_0" ELSE "g.txt_chunk_0"

\* loadText(filePath): the documents pushed for a file whose text fits in
\* one chunk, chunkText giving [text.trim()]
loadText(name) == <<[id |-> ChunkId(name), content |-> trim(FileText(name))]>>

\* readdir(dirPath): the entries of the directory
readdir(disk) == SelectSeq(FileNames, LAMBDA name : name \in disk)

\* mutant of clearTimeout: the pending timeout is left to run
clearTimeoutNot(timers) == timers

\* if (this._refreshTimeout) clearTimeout(this._refreshTimeout)
clearTimeout(timers) == <<>>

\* loadDocuments() up to its first await: this.documents = [], then stat
\* is awaited.  held, stable and overlap are records of the past: the ids
\* addDocument had returned when this run was called; whether no file
\* changed, no document was added and no run failed since a run began with
\* no other in flight; and whether two runs were in flight at once since
StartLoad(s, origin) ==
  [s EXCEPT !.documents = <<>>,
            !.loads = Append(@, [origin |-> origin, pc |-> "stat",
                                 entries |-> <<>>, held |-> s.added]),
            !.stable = IF s.loads = <<>> THEN TRUE ELSE @,
            !.overlap = s.loads # <<>>]

\* new FileDataSource({path, watchDebounce, onRefresh}) on a directory;
\* onRefresh is whether the callback that refreshes the engine is set
NewFileDataSource(debounce, onRefresh, disk) ==
  /\ fds = NoSource
  /\ fds' = [pc |-> "ready",
             watchDebounce |-> IF debounce # 0 THEN debounce
                               ELSE DefaultWatchDebounce,
             onRefresh |-> onRefresh, disk |-> disk, documents |-> <<>>,
             loads |-> <<>>, watching |-> FALSE, timers |-> <<>>,
             since |-> 0, events |-> 0, bursts |-> 0, fired |-> 0,
             reloaded |-> 0, refreshed |-> 0, adds |-> 0, added |-> {},
             stable |-> TRUE, overlap |-> FALSE]
  /\ UNCHANGED <<engine, call, chunker, guard>>

\* startWatching(): the watcher is created and handleChange registered
StartWatching ==
  /\ fds.pc = "ready"
  /\ ~fds.watching
  /\ fds' = [fds EXCEPT !.watching = TRUE]
  /\ UNCHANGED <<engine, call, chunker, guard>>

\* loadDocuments() is called: by initialize(), by the engine's refresh() or
\* by any other caller
LoadCall ==
  /\ fds.pc = "ready"
  /\ Len(fds.loads) < MaxLoads
  /\ fds' = StartLoad(fds, "call")
  /\ UNCHANGED <<engine, call, chunker, guard>>

\* run n resumes from stat and readdir with the entries of the directory,
\* or stat rejects and the run fails
LoadStat(n) ==
  /\ fds.pc = "ready"
  /\ n \in DOMAIN fds.loads
  /\ fds.loads[n].pc = "stat"
  /\ \E ok \in BOOLEAN :
       fds' = IF ok
              THEN [fds EXCEPT !.loads[n].pc = "files",
                               !.loads[n].entries = readdir(fds.disk)]
              ELSE [fds EXCEPT !.loads = RemoveAt(@, n), !.stable = FALSE]
  /\ UNCHANGED <<engine, call, chunker, guard>>

\* run n resumes from the readFile of its next entry and pushes the
\* documents of that file to this.documents as it is now; a file that is
\* gone is skipped with a warning
LoadFile(n) ==
  /\ fds.pc = "ready"
  /\ n \in DOMAIN fds.loads
  /\ fds.loads[n].pc = "files"
  /\ fds.loads[n].entries # <<>>
  /\ LET name == Head(fds.loads[n].entries)
     IN  fds' = [fds EXCEPT
                   !.loads[n].entries = Tail(@),
                   !.documents = IF name \in fds.disk THEN @ \o loadText(name)
                                 ELSE @]
  /\ UNCHANGED <<engine, call, chunker, guard>>

\* run n returns this.documents.  The timer callback that awaited it then
\* calls onRefresh, and the engine's refresh() it stands for calls
\* loadDocuments() again at once
LoadReturn(n) ==
  /\ fds.pc = "ready"
  /\ n \in DOMAIN fds.loads
  /\ fds.loads[n].pc = "files"
  /\ fds.loads[n].entries = <<>>
  /\ LET rest == [fds EXCEPT !.loads = RemoveAt(@, n)]
     IN  fds' = IF fds.loads[n].origin # "watch" THEN rest
                ELSE IF ~fds.onRefresh
                THEN [rest EXCEPT !.reloaded = @ + 1]
                ELSE StartLoad([rest EXCEPT !.reloaded = @ + 1,
                                            !.refreshed = @ + 1],
                               "refresh")
  /\ UNCHANGED <<engine, call, chunker, guard>>

\* whether a pending timeout has run its delay
Due(s) == \E i \in DOMAIN s.timers : s.timers[i] >= s.watchDebounce

\* a file is added, changed or removed, and the watcher reports it:
\* handleChange clears the pending timeout and sets a new one.  A timeout
\* that is due runs before an event that arrives later is handled.  since
\* is the time since the event before, and bursts counts the bursts: an
\* event opens one when it is the first or comes watchDebounce or more
\* after the event before
HandleChange(eventType, name) ==
  /\ fds.pc = "ready"
  /\ fds.watching
  /\ fds.events < MaxEvents
  /\ ~Due(fds)
  /\ CASE eventType = "added"   -> name \notin fds.disk
       [] eventType = "changed" -> name \in fds.disk
       [] eventType = "removed" -> name \in fds.disk
  /\ fds' = [fds EXCEPT
               !.disk = CASE eventType = "added"   -> @ \cup {name}
                          [] eventType = "changed" -> @
                          [] eventType = "removed" -> @ \ {name},
               !.timers = Append(clearTimeout(@), 0),
               !.since = 0,
               !.events = @ + 1,
               !.bursts = IF fds.events = 0 \/ fds.since >= fds.watchDebounce
                          THEN @ + 1 ELSE @,
               !.stable = FALSE]
  /\ UNCHANGED <<engine, call, chunker, guard>>

\* time passes while a timeout is pending and none is due
WatchTick ==
  /\ fds.pc = "ready"
  /\ fds.timers # <<>>
  /\ ~Due(fds)
  /\ fds' = [fds EXCEPT
               !.timers = [i \in DOMAIN @ |-> @[i] + TickMs],
               !.since = @ + TickMs]
  /\ UNCHANGED <<engine, call, chunker, guard>>

\* a timeout that is due runs its callback up to
\* await this.loadDocuments()
TimerFire ==
  /\ fds.pc = "ready"
  /\ Len(fds.loads) < MaxLoads
  /\ \E i \in DOMAIN fds.timers :
       /\ fds.timers[i] >= fds.watchDebounce
       /\ fds' = StartLoad([fds EXCEPT !.timers = RemoveAt(@, i),
                                       !.fired = @ + 1],
                           "watch")
  /\ UNCHANGED <<engine, call, chunker, guard>>

\* FileDataSource.addDocument(document): the document is pushed to
\* this.documents under document.id || `doc_${this.documents.length}`
SourceAddDocument(id, content) ==
  /\ fds.pc = "ready"
  /\ fds.adds < MaxAdds
  /\ LET newId == IF id # "" THEN id ELSE GeneratedId(Len(fds.documents))
     IN  fds' = [fds EXCEPT
                   !.documents = Append(@, [id |-> newId, content |-> content]),
                   !.adds = @ + 1,
                   !.added = @ \cup {newId},
                   !.stable = FALSE]
  /\ UNCHANGED <<engine, call, chunker, guard>>

FileNext ==
  \/ \E debounce \in WatchDebounces, onRefresh \in BOOLEAN,
        disk \in SUBSET Range(FileNames) :
       NewFileDataSource(debounce, onRefresh, disk)
  \/ StartWatching
  \/ LoadCall
  \/ \E n \in 1..MaxLoads : LoadStat(n)
  \/ \E n \in 1..MaxLoads : LoadFile(n)
  \/ \E n \in 1..MaxLoads : LoadReturn(n)
  \/ \E eventType \in {"added", "changed", "removed"}, name \in Range(FileNames) :
       HandleChange(eventType, name)
  \/ WatchTick
  \/ TimerFire
  \/ \E id \in {"", "c"} : SourceAddDocument(id, TextFrance)

FileSpec == LibraryInit /\ [][FileNext]_vars

(***************************************************************************)
(* Guardrails: validateQuery with its length check and its rate limit,     *)
(* resetRateLimit and clearRateLimits.  Times are in milliseconds.         *)
(***************************************************************************)
\* config.maxQueryLength || 2000
DefaultMaxQueryLength == 2000
\* the latest time Date.now() returns in one behaviour
MaxTime == 3000
\* validateQuery() calls in one behaviour
MaxValidations == 5

\* the userId arguments of validateQuery
Users == {"u", "v"}
\* config.enabled as <<value>>, or <<>> when the field is not given
Enableds == {<<>>, <<TRUE>>, <<FALSE>>}
\* config.maxQueryLength as given; 0 stands for a field that is not given
MaxQueryLengths == {0, 5}
\* config.rateLimit || null
NoLimit == [requests |-> 0, window |-> 0]
RateLimits == {NoLimit} \cup [requests : {1, 2}, window : {1000, 2000}]
\* queries, by their length and by whether they hold a blocked term
GuardQueries == [length : {3, 2001}, blocked : BOOLEAN]

\* userRequests.filter(time => now - time < this.rateLimit.window)
RecentRequests(userRequests, now, window) ==
  SelectSeq(userRequests, LAMBDA time : now - time < window)

\* mutant of RateExceeded: one request more is let through
RateExceededOver(recentRequests, requests) == Len(recentRequests) > requests

\* recentRequests.length >= this.rateLimit.requests
RateExceeded(recentRequests, requests) == Len(recentRequests) >= requests

\* what validateQuery(query, userId) returns under the state g
Verdict(g, userId, query) ==
  IF ~g.enabled THEN "allowed"
  ELSE IF query.length > g.maxQueryLength THEN "length"
  ELSE IF g.rateLimit # NoLimit
          /\ RateExceeded(RecentRequests(g.requestCounts[userId], g.now,
                                         g.rateLimit.window),
                          g.rateLimit.requests)
  THEN "rate"
  ELSE IF query.blocked THEN "blocked"
  ELSE "allowed"

\* new Guardrails(config); requestCounts holds the list of a user without
\* an entry as the empty list, which is how validateQuery reads it, and
\* passed keeps, for each user, the times at which a query got past the
\* rate check since the user's entry was last deleted
NewGuardrails(enabled, maxQueryLength, rateLimit) ==
  /\ guard = NoGuard
  /\ guard' = [pc |-> "ready",
               enabled |-> IF enabled = <<>> THEN TRUE ELSE enabled[1],
               maxQueryLength |-> IF maxQueryLength # 0 THEN maxQueryLength
                                  ELSE DefaultMaxQueryLength,
               rateLimit |-> rateLimit,
               requestCounts |-> [u \in Users |-> <<>>],
               now |-> 0, validations |-> 0,
               passed |-> [u \in Users |-> <<>>],
               last |-> [userId |-> "", verdict |-> ""]]
  /\ UNCHANGED <<engine, call, chunker, fds>>

\* validateQuery(query, userId): the length check, then the rate check,
\* which stores the pruned list with now pushed when it lets the query
\* through, then the blocked terms
ValidateQuery(query, userId) ==
  /\ guard.pc = "ready"
  /\ guard.validations < MaxValidations
  /\ LET verdict == Verdict(guard, userId, query)
         checked == /\ guard.enabled
                    /\ query.length <= guard.maxQueryLength
                    /\ guard.rateLimit # NoLimit
                    /\ verdict # "rate"
         recentRequests == RecentRequests(guard.requestCounts[userId],
                                          guard.now, guard.rateLimit.window)
     IN  guard' = [guard EXCEPT
                     !.validations = @ + 1,
                     !.requestCounts[userId] =
                        IF checked THEN Append(recentRequests, guard.now) ELSE @,
                     !.passed[userId] =
                        IF checked THEN Append(@, guard.now) ELSE @,
                     !.last = [userId |-> userId, verdict |-> verdict]]
  /\ UNCHANGED <<engine, call, chunker, fds>>

\* time passes
GuardTick ==
  /\ guard.pc = "ready"
  /\ guard.now < MaxTime
  /\ guard' = [guard EXCEPT !.now = @ + TickMs]
  /\ UNCHANGED <<engine, call, chunker, fds>>

\* resetRateLimit(userId): this.requestCounts.delete(userId)
ResetRateLimit(userId) ==
  /\ guard.pc = "ready"
  /\ guard.requestCounts[userId] # <<>>
  /\ guard' = [guard EXCEPT !.requestCounts[userId] = <<>>,
                            !.passed[userId] = <<>>,
                            !.last = [userId |-> "", verdict |-> ""]]
  /\ UNCHANGED <<engine, call, chunker, fds>>

\* clearRateLimits(): this.requestCounts.clear()
ClearRateLimits ==
  /\ guard.pc = "ready"
  /\ \E u \in Users : guard.requestCounts[u] # <<>>
  /\ guard' = [guard EXCEPT !.requestCounts = [u \in Users |-> <<>>],
                            !.passed = [u \in Users |-> <<>>],
                            !.last = [userId |-> "", verdict |-> ""]]
  /\ UNCHANGED <<engine, call, chunker, fds>>

GuardNext ==
  \/ \E enabled \in Enableds, maxQueryLength \in MaxQueryLengths,
        rateLimit \in RateLimits :
       NewGuardrails(enabled, maxQueryLength, rateLimit)
  \/ \E query \in GuardQueries, userId \in Users : ValidateQuery(query, userId)
  \/ GuardTick
  \/ \E userId \in Users : ResetRateLimit(userId)
  \/ ClearRateLimits

GuardSpec == LibraryInit /\ [][GuardNext]_vars

(***************************************************************************)
(* Properties.                                                             *)
(***************************************************************************)
Ids(docs) == {docs[i].id : i \in DOMAIN docs}

\* list holds the n best-ranked entries of the cache for queryVector: each
\* an entry of the cache with its cosine score, no entry twice, in
\* descending order of score, and no entry left out scores higher
BestRanked(list, cache, queryVector, n) ==
  /\ Len(list) = Min(n, Len(cache))
  /\ \A i \in DOMAIN list :
       \E j \in DOMAIN cache :
         /\ cache[j].id = list[i].id
         /\ list[i].score = cosineSimilarity(queryVector, cache[j].vector)
  /\ \A i, j \in DOMAIN list : i < j =>
       /\ list[i].id # list[j].id
       /\ list[i].score >= list[j].score
  /\ \A j \in DOMAIN cache : cache[j].id \notin Ids(list) =>
       \A i \in DOMAIN list :
         list[i].score >= cosineSimilarity(queryVector, cache[j].vector)

\* a retrieve() call returns from retrieveByVector in this step
RetrieveRanked == QueryRank /\ qry.kind = "retrieve"

Passing(similarities, threshold) ==
  SelectSeq(similarities, LAMBDA c : c.score >= threshold)

\* C1: after refresh() has completed on an engine with a vectorizer, nothing
\* else being in flight, every id a following retrieve() returns is the id
\* of a document the data source holds.
C1_RetrieveOnlyCurrentIds ==
  (/\ config.embeddings
   /\ ret.op = "retrieve"
   /\ ret.error = ""
   /\ ret.afterRefresh
   /\ settled)
  => \A i \in DOMAIN ret.results : ret.results[i].id \in Ids(documents)

\* C2: after refresh() has completed, getStats().documentCount equals
\* dataSource.getDocumentCount().
C2_StatsCountMatchesSource == settled => StatsDocumentCount = Len(documents)

\* the cache while a refresh has stored the entry of at least one document
\* and has not yet stored the entry of another
Torn == refr.pc = "index" /\ refr.loop.i > 1 /\ LoopBusy(refr.loop)

\* C3: the cache read of a retrieve()/query() that interleaves with a
\* running refresh() never sees a cache of which that refresh has
\* re-embedded some entries and not the others.
C3_NoTornCacheRead == [][QueryRank => ~Torn]_vars

\* C4: query() on an engine that is not Ready fails with the
\* not-initialized error, starts no retrieval, does not call the generation
\* provider and leaves initialized, the vector cache, topK and
\* similarityThreshold as they were.
C4_QueryNotReadyFails ==
  [][\A query \in Queries, k \in TopKs :
       (QueryCall("query", query, k) /\ ~initialized) =>
         /\ ret'.op = "query"
         /\ ret'.error = NotInitialized
         /\ ret'.results = <<>>
         /\ qry'.pc = "idle"
         /\ llmCalls' = llmCalls
         /\ UNCHANGED engineFields]_vars

\* C4 witness: an engine that was initialized over documents and then
\* closed has refused a query
C4_Witness ==
  /\ ret.op = "query"
  /\ ret.error = NotInitialized
  /\ closed
  /\ Len(documentVectors) > 0

\* C5: a retrieve() called while the engine is not Ready (before
\* initialize() has completed, or after close()) produces no retrieval
\* result: it returns no document.
C5_RetrieveOnlyWhenReady ==
  (ret.op = "retrieve" /\ ~ret.ready) => ret.results = <<>>

\* C6: initialize() on an engine without a data source or without a
\* generation provider fails with a configuration error before any
\* collaborator is initialized, and the engine is not Ready afterwards.
C6_InitializeConfigError ==
  [][(InitializeCall /\ (~config.dataSource \/ ~config.llm)) =>
       /\ ret'.op = "initialize"
       /\ ret'.error \in ConfigError
       /\ init'.pc = "idle"
       /\ ~initialized'
       /\ UNCHANGED <<dsInitialized, llmInitialized, documents, emb,
                      documentVectors>>]_vars

\* C6 witness: initialize() has failed for the missing generation provider
\* on an engine that has a data source
C6_Witness ==
  /\ config.dataSource
  /\ ~config.llm
  /\ ret.op = "initialize"
  /\ ret.error = "LLM is required"
  /\ ~dsInitialized

\* C7: when a step of initialize() fails the error reaches the caller and
\* the engine is not Ready when the call ends, whatever state it was in
\* when initialize() was called.
C7_FailedInitializeNotReady ==
  (ret.op = "initialize" /\ ret.error # "") => ~initialized

\* C8: Ready is entered only by a successful initialize() from
\* Uninitialized, refresh() runs only from Ready, and once close() has run
\* the engine is never Ready again.
C8_Lifecycle ==
  [][/\ (~initialized /\ initialized') => (init.pc # "idle" /\ ~closed)
     /\ RefreshCall => initialized
     /\ closed => ~initialized']_vars

\* C9: with a populated cache retrieve(query, topK) takes the 2*topK
\* best-ranked candidates and, when one of them scores at least
\* similarityThreshold, returns exactly the candidates that do, in rank
\* order, cut to the first topK: no result below the threshold, no more
\* than topK results.
C9_ThresholdFilter ==
  [][RetrieveRanked =>
       LET candidates == ret'.similarities
           passing    == Passing(candidates, similarityThreshold)
           expected   == SubSeq(passing, 1, Min(qry.topK, Len(passing)))
       IN  /\ BestRanked(candidates, documentVectors, qry.vector, 2 * qry.topK)
           /\ passing # <<>> =>
                /\ Len(ret'.results) = Len(expected)
                /\ \A i \in DOMAIN expected :
                     /\ ret'.results[i].id = expected[i].id
                     /\ ret'.results[i].score = expected[i].score
                     /\ ret'.results[i].content =
                          MapGet(documentVectors, expected[i].id).content
                /\ \A i \in DOMAIN ret'.results :
                     ret'.results[i].score >= similarityThreshold
                /\ Len(ret'.results) <= qry.topK]_vars

\* C9 witness: a retrieve() over a cache of more than 2*topK entries has
\* returned topK results while more than topK candidates passed the
\* threshold
C9_Witness ==
  /\ ret.op = "retrieve"
  /\ ret.error = ""
  /\ ret.size > Len(ret.similarities)
  /\ Len(ret.similarities) = 2 * ret.topK
  /\ Len(Passing(ret.similarities, ret.threshold)) > ret.topK
  /\ Len(ret.results) = ret.topK

\* C10: with a non-empty cache retrieve(query, topK) never returns an
\* empty list; when no candidate reaches similarityThreshold it returns the
\* top min(topK, cache size) candidates in rank order.
C10_NeverEmpty ==
  [][/\ \A query \in Queries, k \in TopKs :
          (QueryCall("retrieve", query, k) /\ Len(documentVectors) > 0) =>
            (qry'.pc = "embedded" /\ ret' = ret)
     /\ RetrieveRanked =>
       /\ Len(documentVectors) > 0
       /\ ret'.results # <<>>
       /\ Passing(ret'.similarities, similarityThreshold) = <<>> =>
            /\ Len(ret'.results) = Min(qry.topK, Len(documentVectors))
            /\ BestRanked(ret'.results, documentVectors, qry.vector, qry.topK)
            /\ \A i \in DOMAIN ret'.results :
                 ret'.results[i].content =
                   MapGet(documentVectors, ret'.results[i].id).content]_vars

\* C10 witness: a retrieve() has returned topK results, fewer than the
\* cache holds, none of whose candidates reached the threshold
C10_Witness ==
  /\ ret.op = "retrieve"
  /\ ret.error = ""
  /\ ret.size > ret.topK
  /\ ret.similarities # <<>>
  /\ Passing(ret.similarities, ret.threshold) = <<>>
  /\ Len(ret.results) = ret.topK

\* C11: a retrieve(query, topK) call made when no vector cache exists (no
\* vectorizer configured, or the cache holds no entry) returns, in that very
\* step, exactly what dataSource.search(query, topK) returns, topK being
\* this.topK when the argument is omitted; the query is not embedded and
\* no ranking is started
C11_RetrieveDelegates ==
  [][\A query \in Queries, k \in TopKs :
       (/\ QueryCall("retrieve", query, k)
        /\ config.dataSource
        /\ ~config.embeddings \/ Len(documentVectors) = 0)
       => /\ ret'.op = "retrieve"
          /\ ret'.error = ""
          /\ ret'.results = CsvSearch(documents, query, IF k # 0 THEN k ELSE topK)
          /\ ret'.similarities = <<>>
          /\ qry' = qry
          /\ qry.pc = "idle"]_vars

\* a retrieve() on an engine with a vectorizer and an empty cache returned
\* a document found by the source's search
C11_Witness ==
  /\ config.embeddings
  /\ documentVectors = <<>>
  /\ ret.op = "retrieve"
  /\ ret.error = ""
  /\ ret.results # <<>>
  /\ ret.similarities = <<>>
  /\ ret.size = 0

\* the events of a stream in order: one sources event carrying the
\* retrieved documents, then one content event per chunk the provider has
\* yielded, in the provider's order, then the done event if the stream is
\* done; nothing else
InOrder(events, docs, produced, done) ==
  /\ Len(events) = 1 + Len(produced) + (IF done THEN 1 ELSE 0)
  /\ events[1] = [type |-> "sources", sources |-> Sources(docs)]
  /\ \A i \in DOMAIN produced :
       events[i + 1] = [type |-> "content", content |-> produced[i]]
  /\ done => events[Len(events)] = [type |-> "done"]
  /\ \A i \in DOMAIN events :
       /\ events[i].type = "sources" <=> i = 1
       /\ events[i].type = "done" <=> (done /\ i = Len(events))
       /\ events[i].type = "content" <=> (1 < i /\ i <= 1 + Len(produced))

\* C12: a queryStream() started on a Ready engine yields exactly one
\* sources event first, then one content event per chunk of the provider in
\* the provider's order, then exactly one done event, which is the last
\* event; at every moment the events yielded so far are a prefix of that
\* sequence, and a queryStream() started on an engine that is not Ready
\* yields no event
C12_StreamOrder ==
  /\ (qry.kind = "stream" /\ qry.pc = "embedded") => qry.events = <<>>
  /\ (qry.kind = "stream" /\ qry.pc \in {"yielded", "streaming"}) =>
       /\ qry.ready
       /\ InOrder(qry.events, qry.docs, qry.produced, FALSE)
  /\ (ret.op = "stream" /\ ret.error = "") =>
       /\ ret.ready
       /\ InOrder(ret.events, ret.results, ret.produced, TRUE)
  /\ (ret.op = "stream" /\ ret.error = UpstreamFailure) =>
       InOrder(ret.events, ret.results, ret.produced, FALSE)
  /\ (ret.op = "stream" /\ ret.error \notin {"", UpstreamFailure}) =>
       ret.events = <<>>

\* a stream over a retrieved document ended after two different chunks
C12_Witness ==
  /\ ret.op = "stream"
  /\ ret.error = ""
  /\ ret.results # <<>>
  /\ Len(ret.produced) = 2
  /\ ret.produced[1] # ret.produced[2]
  /\ Len(ret.events) = 4

\* C13: within one query() call the provider is not invoked before
\* retrieval has returned, and the documents retrieved are those the vector
\* cache as it was when the call was made gives, whatever steps of
\* addDocument() or refresh() ran since
C13_SourcesFromCacheAtCall ==
  [][/\ (qry.kind = "query" /\ qry.pc = "embedded" /\ llmCalls' # llmCalls)
          => QueryRank
     /\ (QueryRank /\ qry.kind = "query" /\ qry'.pc = "generate")
          => qry'.docs = retrieveByVector(qry.cache, qry.vector,
                                          similarityThreshold, qry.topK).results
    ]_vars

\* the preview of a content: the content itself up to PreviewLength
\* characters, its first PreviewLength characters and "..." beyond
Preview(content) ==
  IF Len(content) <= 200 THEN content
  ELSE [i \in 1..203 |-> IF i <= 200 THEN content[i] ELSE 46]

\* C14: query(q, options) on a Ready engine retrieves what
\* retrieve(q, options.topK or this.topK) returns, hands exactly those
\* documents with q to the provider, and returns the provider's answer to
\* them, q as query, and as sources those documents one-to-one in the same
\* order with their id, their score and the preview of their content
C14_QueryResult ==
  [][/\ \A query \in Queries, k \in TopKs :
          (QueryCall("query", query, k) /\ initialized /\ config.dataSource)
          => /\ ret' = ret
             /\ qry'.query = query
             /\ qry'.topK = (IF k # 0 THEN k ELSE topK)
             /\ IF config.embeddings /\ Len(documentVectors) > 0
                THEN qry'.pc = "embedded" /\ llmCalls' = llmCalls
                ELSE /\ qry'.pc = "generate"
                     /\ qry'.docs = CsvSearch(documents, query, qry'.topK)
     /\ (QueryRank /\ qry.kind = "query" /\ qry'.pc = "generate")
          => /\ qry'.docs = retrieveByVector(documentVectors, qry.vector,
                                             similarityThreshold, qry.topK).results
             /\ qry'.query = qry.query
     /\ (QueryGenerate /\ ret'.error = "")
          => /\ ret'.op = "query"
             /\ ret'.query = qry.query
             /\ ret'.answer = [query |-> qry.query, docs |-> qry.docs]
             /\ Len(ret'.results) = Len(qry.docs)
             /\ \A i \in DOMAIN qry.docs :
                  /\ ret'.results[i].id = qry.docs[i].id
                  /\ ret'.results[i].score = qry.docs[i].score
                  /\ ret'.results[i].content = Preview(qry.docs[i].content)
    ]_vars

\* a query() returned an answer made from a document longer than the
\* preview, listed in the sources with its content cut
C14_Witness ==
  /\ ret.op = "query"
  /\ ret.error = ""
  /\ ret.ready
  /\ ret.results # <<>>
  /\ \E i \in DOMAIN ret.results :
       /\ Len(ret.answer.docs[i].content) > 200
       /\ Len(ret.results[i].content) = 203

\* the entries of a cache under an id
Under(cache, id) == {i \in DOMAIN cache : cache[i].id = id}

\* C15: addDocument(doc) on an engine with a source and a vectorizer hands
\* the document to the source, embeds its content under the vocabulary as
\* it is, and stores one cache entry under the id the source returned;
\* none of its steps changes the vocabulary, the IDF table, the corpus size
\* or any other cache entry
C15_AddDocumentFrame ==
  [][/\ \A id \in AddIds, content \in AddContents :
          (AddDocumentCall(id, content) /\ config.dataSource /\ config.embeddings)
          => /\ documents' = Append(documents,
                                    [id |-> IF id # "" THEN id
                                            ELSE GeneratedId(Len(documents)),
                                     content |-> content])
             /\ add'.id = documents'[Len(documents')].id
             /\ add'.content = content
             /\ emb' = emb
             /\ documentVectors' = documentVectors
     /\ (AddDocumentEmbed /\ config.embeddings)
          => /\ add'.vector = embed(emb, add.content)
             /\ add'.id = add.id
             /\ emb' = emb
             /\ documentVectors' = documentVectors
             /\ documents' = documents
     /\ AddDocumentStore
          => /\ emb' = emb
             /\ documents' = documents
             /\ Cardinality(Under(documentVectors', add.id)) = 1
             /\ \A i \in Under(documentVectors', add.id) :
                  documentVectors'[i] = [id |-> add.id, content |-> add.content,
                                         vector |-> add.vector]
             /\ Len(documentVectors') =
                  Len(documentVectors) + (IF Under(documentVectors, add.id) = {}
                                          THEN 1 ELSE 0)
             /\ \A i \in DOMAIN documentVectors :
                  documentVectors[i].id # add.id
                  => documentVectors'[i] = documentVectors[i]
             /\ ret'.op = "addDocument"
             /\ ret'.results = <<[id |-> add.id]>>
    ]_vars

\* an addDocument() returned on an engine whose vocabulary is built and
\* whose cache holds the new entry beside another one
C15_Witness ==
  /\ config.embeddings
  /\ ret.op = "addDocument"
  /\ ret.error = ""
  /\ emb.documentCount > 0
  /\ Len(documentVectors) >= 2
  /\ ret.results[1].id \in Ids(documentVectors)
  /\ \E i \in DOMAIN documentVectors : documentVectors[i].id # ret.results[1].id

\* C16: after the buildVocabulary(D) of a refresh() the vocabulary, the IDF
\* table and the corpus size are those D alone gives: what a vectorizer
\* that never built a vocabulary before would hold
C16_VocabularyReplaced ==
  [][(RefreshLoad /\ refr'.pc = "vocabulary")
      => emb' = buildVocabulary(NewEmbeddings, Contents(documents'))]_vars

\* C17: findSimilar(queryVector, documents, topK), when every vector has
\* the query vector's length, returns min(topK, |documents|) pairs, each the
\* id and the cosine score of a document of its own, in descending order of
\* score, documents of equal score in their input order, and no document
\* left out scores higher than a returned one
C17_FindSimilarRanked ==
  (call.name = "findSimilar" /\ call.error = "") =>
    LET docs == call.documents
        out  == call.out
        Score(j) == cosineSimilarity(call.queryVector, docs[j].vector)
    IN  /\ Len(out) = Min(call.topK, Len(docs))
        /\ \E f \in [DOMAIN out -> DOMAIN docs] :
             /\ \A i, j \in DOMAIN out : f[i] = f[j] => i = j
             /\ \A i \in DOMAIN out :
                  out[i] = [id |-> docs[f[i]].id, score |-> Score(f[i])]
             /\ \A i, j \in DOMAIN out : i < j =>
                  /\ out[i].score >= out[j].score
                  /\ out[i].score = out[j].score => f[i] < f[j]
             /\ \A j \in DOMAIN docs :
                  (\A i \in DOMAIN out : f[i] # j)
                  => \A i \in DOMAIN out : out[i].score >= Score(j)

\* findSimilar returned fewer documents than it was given, two of them of
\* equal score and different ids
C17_Witness ==
  /\ call.name = "findSimilar"
  /\ call.error = ""
  /\ Len(call.out) = 2
  /\ Len(call.documents) = 3
  /\ call.out[1].score = call.out[2].score
  /\ call.out[1].id # call.out[2].id
  /\ call.documents[1].id # call.out[1].id

\* C18: cosineSimilarity(a, b) on vectors of different lengths fails with
\* the dimension-mismatch error and gives no score; findSimilar and
\* retrieveByVector, when one document's vector differs in length from the
\* query vector, fail with that error and return nothing: the document is
\* neither skipped nor scored
C18_MismatchSurfaces ==
  /\ (call.name = "cosineSimilarity" /\ Len(call.a) # Len(call.b)) =>
       (call.error = "Vectors must have the same dimension" /\ call.out = <<>>)
  /\ (call.name \in {"findSimilar", "retrieveByVector"}
      /\ \E i \in DOMAIN call.documents :
           Len(call.documents[i].vector) # Len(call.queryVector)) =>
       (call.error = "Vectors must have the same dimension" /\ call.out = <<>>)

\* retrieveByVector failed over a cache that holds a vector of the query's
\* length beside one of another length
C18_Witness ==
  /\ call.name = "retrieveByVector"
  /\ call.error = "Vectors must have the same dimension"
  /\ \E i, j \in DOMAIN call.documents :
       /\ Len(call.documents[i].vector) = Len(call.queryVector)
       /\ Len(call.documents[j].vector) # Len(call.queryVector)

\* C19: with 0 <= chunkOverlap < chunkSize every iteration of chunkText's
\* loop leaves start strictly greater than it found it (so the loop ends)
C19_ChunkProgress ==
  [][(/\ ChunkTextStep
      /\ 0 <= chunker.chunkOverlap
      /\ chunker.chunkOverlap < chunker.chunkSize)
     => chunker'.start > chunker.start]_vars

\* the positions of a text that lie in the window [w.start, w.end)
Inside(w) == {p \in w.start..(w.end - 1) : TRUE}

\* C20: when chunkText has cut a text longer than chunkSize, every
\* position of the text lies in one of the windows [start, end) it cut,
\* two consecutive windows share chunkOverlap positions, and with
\* chunkSize 100 and chunkOverlap 20 a text of 250 characters took at most
\* 4 iterations
C20_ChunkCoverage ==
  (chunker.pc = "done" /\ Len(chunker.text) > chunker.chunkSize) =>
    /\ \A p \in 0..(Len(chunker.text) - 1) :
         \E i \in DOMAIN chunker.windows : p \in Inside(chunker.windows[i])
    /\ \A i \in 1..(Len(chunker.windows) - 1) :
         Cardinality(Inside(chunker.windows[i])
                     \cap Inside(chunker.windows[i + 1])) = chunker.chunkOverlap
    /\ (chunker.chunkSize = 100 /\ chunker.chunkOverlap = 20
        /\ Len(chunker.text) = 250)
       => Len(chunker.windows) <= 4

\* C21: when a loadDocuments() (the reload a refresh() makes) returns, the
\* source holds every document that addDocument had added when that
\* loadDocuments() was called
C21_AddedSurvivesRefresh ==
  [][\A n \in 1..MaxLoads :
       LoadReturn(n) => fds.loads[n].held \subseteq Ids(fds.documents)]_vars

UniqueIds(docs) == \A i, j \in DOMAIN docs : docs[i].id = docs[j].id => i = j

\* C23: a loadDocuments() of a file whose rows have ids of their own gives
\* documents with ids of their own, and an addDocument() on a source whose
\* documents have ids of their own leaves it so, also when the id it is
\* given is already held
C23_SourceIdsUnique ==
  [][/\ ((InitializeSource \/ RefreshLoad) /\ UniqueIds(file))
          => UniqueIds(documents')
     /\ \A id \in AddIds, content \in AddContents :
          (AddDocumentCall(id, content) /\ UniqueIds(documents))
          => UniqueIds(documents')
    ]_vars

\* the positions before end and at most chunkSize/2 before it where a
\* boundary marker starts
Markers(text, end, chunkSize) ==
  {p \in 0..(end - 1) :
     /\ 2 * p >= 2 * end - chunkSize
     /\ \E n \in DOMAIN BreakPoints : BreakAt(text, BreakPoints[n], p)}

\* C24: in an iteration of chunkText's loop whose end = start + chunkSize
\* falls before the end of the text, the window ends just after the
\* boundary marker nearest to end among the markers at most chunkSize/2
\* before end, and at end when there is none; the window never ends past
\* start + chunkSize
C24_ChunkEndNearestMarker ==
  [][ChunkTextStep =>
       LET text   == chunker.text
           end    == chunker.start + chunker.chunkSize
           window == chunker'.windows[Len(chunker'.windows)]
           near   == Markers(text, end, chunker.chunkSize)
           last   == CHOOSE p \in near : \A q \in near : q <= p
       IN  /\ window.end <= end
           /\ (end < Len(text) /\ near = {}) => window.end = end
           /\ (end < Len(text) /\ near # {}) =>
                \E n \in DOMAIN BreakPoints :
                  /\ BreakAt(text, BreakPoints[n], last)
                  /\ window.end = last + Len(BreakPoints[n])]_vars

\* C25: the chunks chunkText returns are never empty and never begin or
\* end with a whitespace character, whatever the text
C25_ChunksTrimmedNonEmpty ==
  chunker.pc = "done" =>
    \A i \in DOMAIN chunker.chunks :
      LET c == chunker.chunks[i]
      IN  /\ Len(c) > 0
          /\ c[1] \notin {9, 10, 13, 32}
          /\ c[Len(c)] \notin {9, 10, 13, 32}

\* C26: the events of a burst (each less than watchDebounce after the one
\* before) leave one timeout pending, which runs once: at every moment
\* the reloads started are as many as the bursts, less the one whose
\* timeout is still pending; a reload starts watchDebounce or more after
\* the last event; an event inside a burst starts none; and onRefresh has
\* run once for each reload that has returned
C26_DebouncedReload ==
  [][fds'.pc = "ready" =>
       /\ Len(fds'.timers) <= 1
       /\ fds'.fired + Len(fds'.timers) = fds'.bursts
       /\ \A i \in DOMAIN fds'.timers : fds'.timers[i] = fds'.since
       /\ fds'.reloaded <= fds'.fired
       /\ fds'.refreshed = (IF fds'.onRefresh THEN fds'.reloaded ELSE 0)
       /\ (fds.pc = "ready" /\ fds'.fired # fds.fired) =>
            /\ fds'.fired = fds.fired + 1
            /\ fds.since >= fds.watchDebounce
            /\ Len(fds'.loads) = Len(fds.loads) + 1
            /\ fds'.loads[Len(fds'.loads)].origin = "watch"
            /\ fds'.events = fds.events
       /\ (fds.pc = "ready" /\ fds'.events # fds.events) =>
            /\ fds'.fired = fds.fired
            /\ fds'.since = 0
            /\ fds'.bursts = fds.bursts + (IF fds.timers = <<>> THEN 1 ELSE 0)
    ]_vars

\* a burst of two events was followed by one reload, which has returned
\* and called onRefresh, and nothing is pending or in flight
C26_Witness ==
  /\ fds.pc = "ready"
  /\ fds.events = 2
  /\ fds.bursts = 1
  /\ fds.fired = 1
  /\ fds.reloaded = 1
  /\ fds.refreshed = 1
  /\ fds.timers = <<>>
  /\ fds.loads = <<>>

\* the weight the specification gives a term: its stored IDF, and
\* Math.log(documentCount + 2) for a term that has none
ClaimedIdf(e, term) ==
  IF term \in DOMAIN e.idf THEN e.idf[term] ELSE Ln(e.documentCount + 2)

RECURSIVE ClaimedAccumulate(_, _, _, _, _)
ClaimedAccumulate(e, tokens, terms, maxTf, vector) ==
  IF terms = <<>> THEN vector
  ELSE LET term  == Head(terms)
           hash  == hashString(term)
           index == HashIndex(hash, Len(vector)) + 1
           plus  == HashSign(hash) * Quot(Count(tokens, term) * ClaimedIdf(e, term), maxTf)
       IN  ClaimedAccumulate(e, tokens, Tail(terms), maxTf,
                             [vector EXCEPT ![index] = @ + plus])

\* the dense vector of text when every term weighs ClaimedIdf
ClaimedEmbed(e, text) ==
  LET tokens == tokenize(text)
      terms  == Unique(tokens, <<>>)
      maxTf  == MaxOver(tokens, terms, 1)
  IN  normalize(ClaimedAccumulate(e, tokens, terms, maxTf, [i \in 1..Dimension |-> 0]))

\* two vectors that differ by the rounding of the fixed-point arithmetic at
\* most, two thousandths in a component
SameVector(a, b) ==
  /\ Len(a) = Len(b)
  /\ \A i \in DOMAIN a : a[i] - b[i] <= 2 /\ b[i] - a[i] <= 2

\* C27: the vector embed returns, for a document added or for a query, is
\* the one in which a term without an IDF entry weighs ln(N+2), N the
\* documentCount of the last buildVocabulary, and a term with an entry
\* weighs its stored IDF
C27_UnseenTermWeight ==
  [][/\ (add.pc = "added" /\ add'.pc = "embedded")
          => SameVector(add'.vector, ClaimedEmbed(emb, add.content))
     /\ (qry.pc = "idle" /\ qry'.pc = "embedded")
          => SameVector(qry'.vector, ClaimedEmbed(emb, qry'.query))]_vars

RECURSIVE LoadOf(_)
\* the documents one run of loadDocuments() makes of the entries names
LoadOf(names) ==
  IF names = <<>> THEN <<>> ELSE loadText(Head(names)) \o LoadOf(Tail(names))

\* C28: when runs of loadDocuments() that were in flight together have all
\* returned, and no file changed, no document was added and no run failed
\* meanwhile, the document list is the one a single load of the directory
\* gives: every document once
C28_OverlappingLoadsAsOne ==
  [][\A n \in 1..MaxLoads :
       (LoadReturn(n) /\ fds'.loads = <<>> /\ fds.overlap /\ fds.stable)
         => fds'.documents = LoadOf(readdir(fds.disk))]_vars

\* C29: after the constructor the engine holds the topK and the
\* similarityThreshold its configuration gave, 5 and 0.3 only for a field
\* that was not given; updateConfig sets the fields its argument holds to
\* the values given and leaves the other as it was; no other step changes
\* either; and a retrieval ranks with the values the engine holds
C29_ConfigHonoured ==
  [][/\ calls = 0 =>
          /\ topK = (IF config.topK # 0 THEN config.topK ELSE DefaultTopK)
          /\ similarityThreshold =
               (IF config.similarityThreshold # <<>>
                THEN config.similarityThreshold[1] ELSE DefaultThreshold)
     /\ \A k \in {0, 2}, t \in Thresholds :
          UpdateConfig(k, t) =>
            /\ topK' = (IF k # 0 THEN k ELSE topK)
            /\ similarityThreshold' = (IF t # <<>> THEN t[1] ELSE similarityThreshold)
            /\ UNCHANGED <<initialized, documentVectors>>
     /\ ~(\E k \in {0, 2}, t \in Thresholds : UpdateConfig(k, t))
          => UNCHANGED <<topK, similarityThreshold>>
     /\ \A query \in Queries, k \in TopKs :
          QueryCall("retrieve", query, k) /\ qry'.pc # "idle"
            => qry'.topK = (IF k # 0 THEN k ELSE topK)
     /\ (QueryRank /\ qry.kind = "retrieve" /\ ret'.error = "")
          => /\ ret'.threshold = similarityThreshold
             /\ ret'.results = retrieveByVector(documentVectors, qry.vector,
                                                similarityThreshold,
                                                qry.topK).results
    ]_vars

\* the times in times that fall in the window of length window that
\* begins at from
InWindow(times, from, window) ==
  Cardinality({i \in DOMAIN times : from <= times[i] /\ times[i] < from + window})

\* C30: with a rate limit of R requests per window W, no window of length
\* W (it is enough to take those that begin at one of the queries) holds
\* more than R queries of one user that got past the rate check;
\* a query turned down by the rate check or by the length check leaves
\* every stored request list as it was; and a validateQuery of one user
\* changes neither the stored list of another user nor what validateQuery
\* would return to that user for any query
C30_RateLimit ==
  [][(guard'.pc = "ready" /\ guard'.rateLimit # NoLimit) =>
       /\ \A u \in Users : \A i \in DOMAIN guard'.passed[u] :
            InWindow(guard'.passed[u], guard'.passed[u][i],
                     guard'.rateLimit.window) <= guard'.rateLimit.requests
       /\ \A query \in GuardQueries, userId \in Users :
            ValidateQuery(query, userId) =>
              /\ guard'.last.verdict \in {"rate", "length"}
                   => guard'.requestCounts = guard.requestCounts
              /\ \A other \in Users \ {userId} :
                   /\ guard'.requestCounts[other] = guard.requestCounts[other]
                   /\ \A q \in GuardQueries :
                        Verdict(guard', other, q) = Verdict(guard, other, q)
    ]_vars

\* user u, with two queries let through inside the window, has just been
\* turned down by the rate check, and user v has had a query let through
C30_Witness ==
  /\ guard.pc = "ready"
  /\ guard.rateLimit.requests = 2
  /\ guard.last = [userId |-> "u", verdict |-> "rate"]
  /\ Len(guard.passed["u"]) = 2
  /\ guard.passed["v"] # <<>>
====
